---------------------------- MODULE Spec2Model ----------------------------
(***************************************************************************)
(* HERO datagram transport (C# reference, protocol version 2): packet      *)
(* codec, fragment engine, client and server connection core.              *)
(*                                                                         *)
(* Byte arrays (byte[], List<byte>) are kept run-length encoded: a byte    *)
(* array is a sequence of runs <<v, n>>, n >= 1 consecutive bytes of value *)
(* v, with no two neighbouring runs of the same value.  The encoding is    *)
(* canonical, so two arrays are equal exactly when their encodings are;    *)
(* it lets the model work with the real sizes (60000, 250000, 1 MiB).      *)
(***************************************************************************)
EXTENDS Integers, Sequences, FiniteSets, TLC

(***************************************************************************)
(* Protocol constants and flags                                            *)
(***************************************************************************)
VERSION == 2
MAX_PAYLOAD_SIZE == 60000
DEFAULT_TIMEOUT_MS == 5000
FRAGMENT_HEADER_SIZE == 12

CONN == 0
GIVE == 1
\* the flag TAKE (TAKE is a reserved word of TLA+)
FlagTAKE == 2
SEEN == 3
STOP == 4
FRAG == 5
PING == 6
PONG == 7

\* ushort / byte casts
U16(n) == n % 65536
U8(n) == n % 256

(***************************************************************************)
(* Byte arrays                                                             *)
(***************************************************************************)
RECURSIVE BNorm(_)
BNorm(b) ==
  IF b = <<>> THEN <<>>
  ELSE LET h == Head(b)
           r == BNorm(Tail(b))
       IN IF h[2] = 0 THEN r
          ELSE IF r # <<>> /\ r[1][1] = h[1]
               THEN <<(<<h[1], h[2] + r[1][2]>>)>> \o Tail(r)
               ELSE <<h>> \o r

RECURSIVE Count(_)
\* b.Length / b.Count
Count(b) == IF b = <<>> THEN 0 ELSE Head(b)[2] + Count(Tail(b))

RECURSIVE Skip(_, _)
\* b.Skip(k): everything after the first k bytes (empty when k >= Count)
Skip(b, k) ==
  IF b = <<>> \/ k <= 0 THEN b
  ELSE IF Head(b)[2] <= k THEN Skip(Tail(b), k - Head(b)[2])
  ELSE <<(<<Head(b)[1], Head(b)[2] - k>>)>> \o Tail(b)

RECURSIVE Take(_, _)
\* b.Take(k): the first k bytes (all of b when k >= Count)
Take(b, k) ==
  IF b = <<>> \/ k <= 0 THEN <<>>
  ELSE IF Head(b)[2] <= k THEN <<Head(b)>> \o Take(Tail(b), k - Head(b)[2])
  ELSE <<(<<Head(b)[1], k>>)>>

\* AddRange: concatenation
Cat(a, b) == BNorm(a \o b)

\* b[i], 0-based
At(b, i) == Take(Skip(b, i), 1)[1][1]

\* an array given byte by byte
Bytes(s) == BNorm([i \in 1..Len(s) |-> <<s[i], 1>>])

\* n bytes of value v
Rep(v, n) == IF n = 0 THEN <<>> ELSE <<(<<v, n>>)>>

\* BitConverter.GetBytes(ushort) / BitConverter.ToUInt16 (little-endian host)
GetBytes(v) == Bytes(<<v % 256, v \div 256>>)
ToUInt16(b, off) == At(b, off) + 256 * At(b, off + 1)

(***************************************************************************)
(* Packet and its codec                                                    *)
(***************************************************************************)
Packet(f, sequence, req, data) ==
  [flag |-> f, version |-> VERSION, seq |-> sequence,
   requirements |-> req, payload |-> data]

MakeConn(seq, client_pubkey) == Packet(CONN, seq, client_pubkey, <<>>)
MakeGive(seq, recipient_key, data) == Packet(GIVE, seq, recipient_key, data)
MakeTake(seq, resource_id) == Packet(FlagTAKE, seq, resource_id, <<>>)
MakeSeen(seq) == Packet(SEEN, seq, <<>>, <<>>)
MakeStop(seq) == Packet(STOP, seq, <<>>, <<>>)
MakePing(seq) == Packet(PING, seq, <<>>, <<>>)
MakePong(seq) == Packet(PONG, seq, <<>>, <<>>)

IsValid(pkt) == pkt.flag <= PONG /\ pkt.version = VERSION

Serialize(pkt) ==
  LET payload_len == U16(Count(pkt.payload))
      req_len == U16(Count(pkt.requirements))
      header == Bytes(<<pkt.flag, pkt.version,
                        (pkt.seq \div 256) % 256, pkt.seq % 256,
                        (payload_len \div 256) % 256, payload_len % 256,
                        (req_len \div 256) % 256, req_len % 256>>)
  IN Cat(Cat(header, pkt.requirements), pkt.payload)

\* A failed decode (the exception Deserialize throws)
DecodeError(why) == [ok |-> FALSE, error |-> why]

\* mutant: the payload is read from offset 8, ignoring the requirements
Deserialize_PayloadAt8(data) ==
  IF Count(data) < 8 THEN DecodeError("Packet too small")
  ELSE LET payload_len == U16(At(data, 4) * 256 + At(data, 5))
           req_len == U16(At(data, 6) * 256 + At(data, 7))
       IN IF Count(data) < 8 + req_len + payload_len
          THEN DecodeError("Packet data incomplete")
          ELSE [ok |-> TRUE,
                pkt |-> [flag |-> At(data, 0), version |-> At(data, 1),
                         seq |-> U16(At(data, 2) * 256 + At(data, 3)),
                         requirements |-> Take(Skip(data, 8), req_len),
                         payload |-> Take(Skip(data, 8), payload_len)]]

\* mutant: the declared lengths are not checked against the buffer
Deserialize_Unchecked(data) ==
  IF Count(data) < 8 THEN DecodeError("Packet too small")
  ELSE LET payload_len == U16(At(data, 4) * 256 + At(data, 5))
           req_len == U16(At(data, 6) * 256 + At(data, 7))
       IN [ok |-> TRUE,
           pkt |-> [flag |-> At(data, 0), version |-> At(data, 1),
                    seq |-> U16(At(data, 2) * 256 + At(data, 3)),
                    requirements |-> Take(Skip(data, 8), req_len),
                    payload |-> Take(Skip(data, 8 + req_len), payload_len)]]

Deserialize(data) ==
  IF Count(data) < 8 THEN DecodeError("Packet too small")
  ELSE LET payload_len == U16(At(data, 4) * 256 + At(data, 5))
           req_len == U16(At(data, 6) * 256 + At(data, 7))
       IN IF Count(data) < 8 + req_len + payload_len
          THEN DecodeError("Packet data incomplete")
          ELSE [ok |-> TRUE,
                pkt |-> [flag |-> At(data, 0), version |-> At(data, 1),
                         seq |-> U16(At(data, 2) * 256 + At(data, 3)),
                         requirements |-> Take(Skip(data, 8), req_len),
                         payload |-> Take(Skip(data, 8 + req_len), payload_len)]]

(***************************************************************************)
(* Fragment engine                                                         *)
(***************************************************************************)
\* FragmentedMessage(id, total): a fresh reassembly record
FragmentedMessage(total, t) ==
  [total_fragments |-> total, fragments |-> <<>>, last_update |-> t]

\* fragments.Count == total_fragments
IsComplete(m) == Cardinality(DOMAIN m.fragments) = m.total_fragments

\* the value null of a byte[] reference, and a byte[] that is not null
Null == [null |-> TRUE, bytes |-> <<>>]
NotNull(b) == [null |-> FALSE, bytes |-> b]

RECURSIVE ReassembleFrom(_, _)
\* the loop of Reassemble from index i on; Null when an index is missing
ReassembleFrom(m, i) ==
  IF i >= m.total_fragments THEN NotNull(<<>>)
  ELSE IF i \notin DOMAIN m.fragments THEN Null
  ELSE LET rest == ReassembleFrom(m, i + 1)
       IN IF rest.null THEN Null
          ELSE NotNull(Cat(m.fragments[i], rest.bytes))

Reassemble(m) == IF ~IsComplete(m) THEN Null ELSE ReassembleFrom(m, 0)

\* chunk size used by the splitter
ChunkSize == MAX_PAYLOAD_SIZE - FRAGMENT_HEADER_SIZE

\* mutant: the fragment count rounds down
TotalFragments_Floor(len) == U16(len \div ChunkSize)

TotalFragments(len) == U16((len + ChunkSize - 1) \div ChunkSize)

\* the packet built by one iteration of the loop of Fragment
FragmentPacket(data, flag, msg_id, i) ==
  LET offset == i * ChunkSize
      length == IF ChunkSize < Count(data) - offset THEN ChunkSize
                ELSE Count(data) - offset
      fragment_data ==
        Cat(Cat(Cat(Cat(GetBytes(msg_id), GetBytes(i)),
                    GetBytes(TotalFragments(Count(data)))), Bytes(<<flag>>)),
            Take(Skip(data, offset), length))
  IN Packet(FRAG, i, <<>>, fragment_data)

\* Fragment(data, flag) with next_msg_id = msg_id: the list of packets
\* (1-based sequence; packet number k carries fragment index k - 1)
Fragment(data, flag, msg_id) ==
  [k \in 1..TotalFragments(Count(data)) |->
     FragmentPacket(data, flag, msg_id, k - 1)]

\* mutant: an index already present keeps its bytes
SetItem_KeepFirst(d, k, v) ==
  [j \in DOMAIN d \cup {k} |-> IF j \in DOMAIN d THEN d[j] ELSE v]

\* d[k] = v on a Dictionary: adds the key or overwrites its value
SetItem(d, k, v) ==
  [j \in DOMAIN d \cup {k} |-> IF j = k THEN v ELSE d[j]]

\* AddFragment(pkt) at time t on the table msgs:
\* [messages, complete (Item1), data (Item2), flag (Item3)]
AddFragment(msgs, pkt, t) ==
  IF pkt.flag # FRAG \/ Count(pkt.payload) < FRAGMENT_HEADER_SIZE
  THEN [messages |-> msgs, complete |-> FALSE, data |-> Null, flag |-> GIVE]
  ELSE LET payload == pkt.payload
           msg_id == ToUInt16(payload, 0)
           frag_num == ToUInt16(payload, 2)
           total_frags == ToUInt16(payload, 4)
           original_flag == At(payload, 6)
           m0 == IF msg_id \in DOMAIN msgs THEN msgs[msg_id]
                 ELSE FragmentedMessage(total_frags, t)
           fragment_data == Skip(payload, 7)
           m1 == [m0 EXCEPT
                    !.fragments = SetItem(@, frag_num, fragment_data),
                    !.last_update = t]
       IN IF IsComplete(m1)
          THEN [messages |-> [k \in DOMAIN msgs \ {msg_id} |-> msgs[k]],
                complete |-> TRUE, data |-> Reassemble(m1),
                flag |-> original_flag]
          ELSE [messages |-> [k \in DOMAIN msgs \cup {msg_id} |->
                                IF k = msg_id THEN m1 ELSE msgs[k]],
                complete |-> FALSE, data |-> Null, flag |-> original_flag]

\* CleanupStale(timeout_seconds) at time t (milliseconds)
CleanupStale(msgs, t, timeout_seconds) ==
  [k \in {id \in DOMAIN msgs :
            ~(t - msgs[id].last_update > timeout_seconds * 1000)} |-> msgs[k]]

(***************************************************************************)
(* State                                                                   *)
(***************************************************************************)
VARIABLES
  \* codec exercise: a packet, its serialized bytes, the decoded result and
  \* the decoded packet serialized again
  cPkt, cWire, cBack, cAgain,
  \* fragment exercise: the sender's input and engine, the packets it
  \* produced, the receiver's reassembly table and what it surfaced
  fData, fFlag, next_msg_id, fSplit, fPkts, messages, fFed, fSurfaced,
  \* the clock (milliseconds)
  now,
  \* HeroServer: running, clients; its fragment_mgr table is messages;
  \* srvSock holds the datagrams waiting on its socket
  running, clients, srvSock,
  \* HeroClient, one per client address: its fields, the call in progress
  \* and the result of the last call; cliSock the datagrams on its socket
  cli, cliSock,
  \* the last Poll call: the datagram it read, the frames it sent, the
  \* handler invocation it made and its return value
  polled, sent, handled, pollRet,
  \* ... whether the handler it invoked threw, and whether an exception left
  \* the call
  handlerThrew, pollRaised,
  \* the Broadcast calls so far (the argument, the peers registered at the
  \* call and the frames sent)
  cast,
  \* whether a HeroServer has been constructed (its socket bound)
  listening,
  \* MagicWords.customWords, and whether the last Register call threw
  customWords, regThrew,
  \* command exercise: a word with its arguments, the bytes Encode made of
  \* them and what Decode made of the bytes
  wCmd, wBytes, wBack,
  \* the clients that called Disconnect since the last Poll of a running
  \* server
  awaitingStop

wordVars == <<customWords, regThrew, wCmd, wBytes, wBack>>
codecVars == <<cPkt, cWire, cBack, cAgain, wordVars>>
fragVars == <<fData, fFlag, next_msg_id, fSplit, fPkts, fFed, fSurfaced>>
pollVars == <<polled, sent, handled, pollRet, handlerThrew, pollRaised, cast>>
netVars ==
  <<now, running, clients, srvSock, cli, cliSock, pollVars, awaitingStop,
    listening>>
vars == <<codecVars, fragVars, messages, netVars>>

\* an optional value
None == [set |-> FALSE]
Some(v) == [set |-> TRUE, val |-> v]

(***************************************************************************)
(* Inputs                                                                  *)
(***************************************************************************)
\* len bytes whose value changes every period bytes (0x41, 0x42, ...)
DataOf(len, period) ==
  BNorm([j \in 1..((len + period - 1) \div period) |->
           <<(64 + j) % 256,
             IF period < len - (j - 1) * period THEN period
             ELSE len - (j - 1) * period>>])

CodecArrays ==
  {<<>>, Bytes(<<1, 2, 3, 4>>), Bytes(<<0, 0, 255>>), DataOf(60000, 25000),
   Rep(65, 65535), Rep(65, 65536)}

CodecPackets ==
  [flag : {CONN, GIVE, FRAG, PONG, 8, 255}, version : {1, VERSION, 255},
   seq : {0, 255, 256, 65535},
   requirements : CodecArrays, payload : CodecArrays]

\* byte strings handed to Deserialize: fewer than 8 bytes; a header with
\* any flag and version byte, declaring 0, 2 or 65535 payload bytes and 0 or
\* 3 requirements bytes, followed by fewer, as many or more bytes than it
\* declares
DecodeHeaders ==
  {Bytes(<<f, v, 1, 44, pl, pl, 0, rl>>) :
     f \in {CONN, GIVE, PONG, 8, 255}, v \in {1, VERSION}, pl \in {0, 255},
     rl \in {0, 3}}
  \cup {Bytes(<<GIVE, VERSION, 0, 7, 0, 2, 0, rl>>) : rl \in {0, 3}}
DecodeBodies ==
  {<<>>, Bytes(<<7>>), Bytes(<<7, 8>>), Bytes(<<7, 8, 9>>),
   Bytes(<<7, 8, 9, 10, 11>>), Bytes(<<7, 8, 9, 10, 11, 12>>),
   Rep(66, 65535), Rep(66, 65536), Cat(Bytes(<<1, 2, 3>>), Rep(66, 65535)),
   Cat(Bytes(<<1, 2, 3>>), Rep(66, 65537))}
DecodeInputs ==
  {Take(Bytes(<<GIVE, VERSION, 0, 1, 0, 0, 0, 0>>), n) : n \in 0..7}
  \cup {Cat(h, b) : h \in DecodeHeaders, b \in DecodeBodies}

SplitLengths ==
  {0, 1, 59988, 59989, 60000, 60001, 119976, 119977, 119980, 119981,
   179964, 250000, 1048576}
SplitInputs ==
  {DataOf(n, p) : n \in SplitLengths, p \in {1048576, 59988, 25000}}

FeedLengths == {60001, 119976, 119977, 119981, 250000}
FeedInputs == {DataOf(n, p) : n \in FeedLengths, p \in {1048576, 25000}}

\* values the 16-bit message counter of an engine can have reached
MsgIds == {0, 255, 65535}

\* most fragment arrivals explored at one receiver
MaxArrivals == 6

(***************************************************************************)
(* Endpoints                                                               *)
(***************************************************************************)
\* the addresses HeroClient instances send from, and another sender's
ClientAddrs == {[host |-> "10.0.0.2", port |-> 5001]}
ServerAddr == [host |-> "10.0.0.1", port |-> 9999]

\* host + ":" + port.ToString()
MakeClientKey(host, port) == <<host, ":", port>>
KeyOf(a) == MakeClientKey(a.host, a.port)

\* the two clients of the broadcast scenario
CastAddrs ==
  {[host |-> "10.0.0.2", port |-> 5001], [host |-> "10.0.0.3", port |-> 5001]}

\* HeroClient(): the fields after construction; inbox is the caller's list of
\* the GIVE packets Receive returned to it, kept only where log is set
\* (rx is the datagram a loop of Connect, Ping or Receive read last)
NewClient(log) ==
  [seq_num |-> 0, connected |-> FALSE, next_msg_id |-> 0, last_ping |-> 0,
   ping_ms |-> 0, messages |-> <<>>, call |-> "none", start |-> 0,
   ping_start |-> 0,
   last |-> [op |-> "none", ret |-> FALSE], emitted |-> <<>>, rx |-> None,
   out_packet |-> None, inbox |-> IF log THEN Some(<<>>) ELSE None]

NetFieldsFor(addrs, log) ==
  /\ now = 0 /\ running = FALSE /\ clients = <<>> /\ srvSock = <<>>
  /\ cli = [c \in addrs |-> NewClient(log)]
  /\ cliSock = [c \in addrs |-> <<>>]
  /\ polled = None /\ sent = <<>> /\ handled = None /\ pollRet = FALSE
  /\ handlerThrew = FALSE /\ pollRaised = FALSE /\ cast = <<>>
  /\ awaitingStop = {}

NetFields == NetFieldsFor(ClientAddrs, FALSE)

\* a HeroServer has been constructed next to the clients
NetIdle == NetFields /\ listening = TRUE

(***************************************************************************)
(* Codec exercise                                                          *)
(***************************************************************************)
\* a string is a sequence of character codes
NoCommand == [word |-> <<>>, args |-> <<>>]

WordsIdle ==
  /\ customWords = <<>> /\ regThrew = FALSE
  /\ wCmd = NoCommand /\ wBytes = None /\ wBack = None

CodecIdle ==
  /\ cPkt = MakeSeen(0) /\ cWire = None /\ cBack = None /\ cAgain = None
  /\ WordsIdle
FragIdle ==
  /\ fData = <<>> /\ fFlag = GIVE /\ next_msg_id = 0 /\ fSplit = FALSE
  /\ fPkts = <<>> /\ fFed = <<>> /\ fSurfaced = <<>>

InitCodec ==
  /\ cPkt \in CodecPackets /\ cWire = None /\ cBack = None /\ cAgain = None
  /\ WordsIdle
  /\ FragIdle /\ messages = <<>> /\ NetIdle

SerializeStep ==
  /\ cWire = None
  /\ cWire' = Some(Serialize(cPkt))
  /\ UNCHANGED <<cPkt, cBack, cAgain, wordVars, fragVars, messages, netVars>>

DeserializeStep ==
  /\ cWire.set /\ cBack = None
  /\ cBack' = Some(Deserialize(cWire.val))
  /\ UNCHANGED <<cPkt, cWire, cAgain, wordVars, fragVars, messages, netVars>>

NextCodec == SerializeStep \/ DeserializeStep
SpecCodec == InitCodec /\ [][NextCodec]_vars

\* the packet Deserialize returned is serialized again
ReserializeStep ==
  /\ cBack.set /\ cBack.val.ok /\ cAgain = None
  /\ cAgain' = Some(Serialize(cBack.val.pkt))
  /\ UNCHANGED <<cPkt, cWire, cBack, wordVars, fragVars, messages, netVars>>

\* decoding byte strings as they come off a socket
InitDecode ==
  /\ cPkt = MakeSeen(0) /\ cWire \in {Some(d) : d \in DecodeInputs}
  /\ cBack = None /\ cAgain = None /\ WordsIdle
  /\ FragIdle /\ messages = <<>> /\ NetIdle

NextDecode == DeserializeStep \/ ReserializeStep
SpecDecode == InitDecode /\ [][NextDecode]_vars

(***************************************************************************)
(* Fragment exercise                                                       *)
(***************************************************************************)
FragStart(inputs) ==
  /\ fData \in inputs /\ fFlag \in {GIVE, FlagTAKE} /\ next_msg_id \in MsgIds
  /\ fSplit = FALSE /\ fPkts = <<>> /\ messages = <<>> /\ fFed = <<>>
  /\ fSurfaced = <<>>
  /\ CodecIdle /\ NetIdle

\* the sender calls Fragment(fData, fFlag)
FragmentStep ==
  /\ ~fSplit
  /\ fPkts' = Fragment(fData, fFlag, next_msg_id)
  /\ next_msg_id' = U16(next_msg_id + 1)
  /\ fSplit' = TRUE
  /\ fFed' = [k \in 1..TotalFragments(Count(fData)) |-> 0]
  /\ UNCHANGED <<fData, fFlag, messages, fSurfaced, codecVars, netVars>>

RECURSIVE Sum(_, _)
Sum(f, n) == IF n = 0 THEN 0 ELSE f[n] + Sum(f, n - 1)
Arrivals == Sum(fFed, Len(fFed))

\* packet number k arrives at the receiver, which calls AddFragment
FeedStep(k) ==
  /\ fSplit /\ Arrivals < MaxArrivals
  /\ LET r == AddFragment(messages, fPkts[k], now)
     IN /\ messages' = r.messages
        /\ fSurfaced' =
             IF r.complete
             THEN Append(fSurfaced, [at |-> Arrivals + 1, flag |-> r.flag,
                                     data |-> r.data,
                                     left |-> DOMAIN r.messages])
             ELSE fSurfaced
  /\ fFed' = [fFed EXCEPT ![k] = @ + 1]
  /\ UNCHANGED <<fData, fFlag, next_msg_id, fSplit, fPkts, codecVars, netVars>>

InitSplit == FragStart(SplitInputs)
NextSplit == FragmentStep
SpecSplit == InitSplit /\ [][NextSplit]_vars

InitFrag == FragStart(FeedInputs)
NextFrag == FragmentStep \/ \E k \in 1..Len(fPkts) : FeedStep(k)
SpecFrag == InitFrag /\ [][NextFrag]_vars

(***************************************************************************)
(* C10  Codec round-trip: a packet whose requirements and payload lengths  *)
(* both fit in 16 bits is decoded from its serialized bytes with the same  *)
(* flag, version, seq, requirements and payload.                           *)
(***************************************************************************)
Fits16(pkt) == Count(pkt.requirements) <= 65535 /\ Count(pkt.payload) <= 65535

C10_CodecRoundTrip ==
  (cBack.set /\ Fits16(cPkt)) =>
     /\ cBack.val.ok
     /\ cBack.val.pkt.flag = cPkt.flag
     /\ cBack.val.pkt.version = cPkt.version
     /\ cBack.val.pkt.seq = cPkt.seq
     /\ cBack.val.pkt.requirements = cPkt.requirements
     /\ cBack.val.pkt.payload = cPkt.payload

\* a decoded packet with 65535 bytes of requirements and a different payload
C10_Witness ==
  /\ cBack.set /\ cBack.val.ok
  /\ Count(cPkt.requirements) = 65535 /\ Count(cPkt.payload) = 4
  /\ cPkt.seq = 65535
  /\ cBack.val.pkt = cPkt

(***************************************************************************)
(* C7  Fragment splits a payload of n bytes into ceil(n / ChunkSize)       *)
(* packets; packet i has flag FRAG, seq i, no requirements, and a payload  *)
(* made of the sub-header (msg_id, i, total, original flag) and a chunk of *)
(* at most ChunkSize bytes; the chunks in index order give the payload     *)
(* back; 250000 bytes give 5 packets.                                      *)
(***************************************************************************)
CeilDiv(n, c) == IF n % c = 0 THEN n \div c ELSE n \div c + 1

RECURSIVE ChunksFrom(_, _)
\* the chunks of the packets k, k+1, ... one after the other
ChunksFrom(pkts, k) ==
  IF k > Len(pkts) THEN <<>>
  ELSE Cat(Skip(pkts[k].payload, 7), ChunksFrom(pkts, k + 1))

C7_FragmentSplit ==
  fSplit =>
    /\ Len(fPkts) = CeilDiv(Count(fData), ChunkSize)
    /\ \A k \in 1..Len(fPkts) :
         /\ fPkts[k].flag = FRAG /\ fPkts[k].seq = k - 1
         /\ fPkts[k].requirements = <<>>
         /\ Count(fPkts[k].payload) >= 7
         /\ Count(fPkts[k].payload) - 7 <= ChunkSize
         /\ ToUInt16(fPkts[k].payload, 0) = U16(next_msg_id + 65535)
         /\ ToUInt16(fPkts[k].payload, 2) = k - 1
         /\ ToUInt16(fPkts[k].payload, 4) = Len(fPkts)
         /\ At(fPkts[k].payload, 6) = fFlag
    /\ ChunksFrom(fPkts, 1) = fData
    /\ (Count(fData) = 250000 => Len(fPkts) = 5)

\* the 250000-byte payload of changing bytes has been split into 5 packets
C7_Witness ==
  /\ fSplit /\ Count(fData) = 250000 /\ Len(fData) > 1 /\ Len(fPkts) = 5
  /\ Count(fPkts[5].payload) = 7 + 250000 - 4 * ChunkSize

(***************************************************************************)
(* C6  Reassembly does not depend on arrival order: once every packet of   *)
(* Fragment(b, GIVE) has arrived exactly once, in whatever order, exactly  *)
(* one message has been reported, at the last arrival, with flag GIVE and  *)
(* payload b.                                                              *)
(***************************************************************************)
AllFedOnce == fSplit /\ \A k \in 1..Len(fPkts) : fFed[k] = 1

C6_AnyOrderReassembles ==
  (AllFedOnce /\ fFlag = GIVE /\ Count(fData) > MAX_PAYLOAD_SIZE) =>
     /\ Len(fSurfaced) = 1
     /\ fSurfaced[1].at = Len(fPkts)
     /\ fSurfaced[1].flag = GIVE
     /\ ~fSurfaced[1].data.null
     /\ fSurfaced[1].data.bytes = fData

(***************************************************************************)
(* C8  A reassembled message is surfaced at most once over any sequence of *)
(* arrivals of its fragments, duplicates included, and its record is       *)
(* destroyed when it is surfaced.                                          *)
(***************************************************************************)
C8_SurfacedOnce ==
  /\ Len(fSurfaced) <= 1
  /\ \A i \in 1..Len(fSurfaced) :
       U16(next_msg_id + 65535) \notin fSurfaced[i].left

(***************************************************************************)
(* C11  Re-encoding is byte-exact: the packet Deserialize returned for a   *)
(* byte string serializes to that same byte string.                        *)
(***************************************************************************)
C11_ReencodeExact == cAgain.set => cAgain.val = cWire.val

(***************************************************************************)
(* C12  Deserialize fails and produces no packet for every input shorter   *)
(* than 8 bytes and for every input shorter than 8 + the requirements      *)
(* length + the payload length its header declares.                        *)
(***************************************************************************)
\* the 16-bit big-endian field at offset off of the header
Declared(d, off) == At(d, off) * 256 + At(d, off + 1)

TooShort(d) ==
  \/ Count(d) < 8
  \/ Count(d) >= 8 /\ Count(d) < 8 + Declared(d, 6) + Declared(d, 4)

C12_ShortInputRejected ==
  (cBack.set /\ TooShort(cWire.val)) =>
     (~cBack.val.ok /\ "pkt" \notin DOMAIN cBack.val)

\* a header declaring 3 + 65535 bytes followed by 65535 bytes was rejected
C12_Witness ==
  /\ cBack.set /\ Count(cWire.val) = 8 + 65535
  /\ Declared(cWire.val, 6) = 3 /\ Declared(cWire.val, 4) = 65535
  /\ cBack.val = DecodeError("Packet data incomplete")

(***************************************************************************)
(* Network, server and client                                              *)
(***************************************************************************)
\* most datagrams a socket queues; most numbered sends and most fragmented
\* sends of one client; the clock stops at MaxTime and advances by TickMs
MaxSock == 2
MaxSeq == 3
MaxMsgs == 1
MaxTime == 40000
TickMs == 31000

\* what clients and other senders put on the wire
PubKeys == {Bytes(<<1, 2, 3, 4>>), Bytes(<<9>>)}
SmallData == {Bytes(<<104, 105>>)}
LargeData == {DataOf(60001, 1048576)}
ReplyData == Bytes(<<79, 75>>)
\* the datagrams other senders put on the server socket: from one address
\* every kind of packet, a flag byte outside the enumeration, a handshake of
\* version 1, bytes that do not decode (too few, or fewer than the header
\* declares) and the two fragments of a large message; from a second address
\* a handshake and a stop
ServerInputs ==
  {Serialize(MakeConn(0, Bytes(<<1, 2, 3, 4>>))),
   Serialize(MakeGive(1, <<>>, Bytes(<<104, 105>>))),
   Serialize(MakeTake(7, <<>>)), Serialize(MakeSeen(9)),
   Serialize(MakePong(9)), Serialize(MakePing(3)),
   Serialize(MakeStop(2)), Bytes(<<1, 2, 3>>),
   Serialize([MakeGive(6, <<>>, Bytes(<<104, 105>>)) EXCEPT !.flag = 8]),
   Serialize([MakeConn(8, Bytes(<<1, 2, 3, 4>>)) EXCEPT !.version = 1]),
   Take(Serialize(MakeGive(1, <<>>, Bytes(<<104, 105>>))), 9)}
  \cup {Serialize(Fragment(DataOf(60001, 1048576), GIVE, 0)[k]) : k \in 1..2}
OtherInputs ==
  {Serialize(MakeConn(4, Bytes(<<9>>))), Serialize(MakeStop(5))}
RawTraffic ==
  {[data |-> d, host |-> "10.0.0.8", port |-> 7000] : d \in ServerInputs}
  \cup {[data |-> d, host |-> "10.0.0.9", port |-> 7000] : d \in OtherInputs}
Handlers == {"null", "quiet", "reply", "throw"}
\* what a client is asked to send: payloads around the two size limits,
\* recipient keys, commands
SendArgs ==
  {[data |-> Bytes(<<104, 105>>), key |-> Null],
   [data |-> Bytes(<<104, 105>>), key |-> NotNull(Bytes(<<9>>))],
   [data |-> DataOf(59988, 25000), key |-> Null],
   [data |-> DataOf(59989, 25000), key |-> Null],
   [data |-> DataOf(60000, 25000), key |-> NotNull(Bytes(<<9>>))],
   [data |-> DataOf(60001, 25000), key |-> Null]}
Commands ==
  {[command |-> <<77, 86>>,
    args |-> <<[kind |-> "string", text |-> <<49>>],
               [kind |-> "string", text |-> <<50, 51>>]>>]}
\* the datagrams other senders put on a client socket
ClientInputs ==
  {Serialize(MakeSeen(0)), Serialize(MakePong(1)),
   Serialize(MakeGive(5, <<>>, Bytes(<<104, 105>>))),
   Serialize(MakeTake(6, Bytes(<<7>>))),
   Serialize([MakeGive(8, <<>>, Bytes(<<104, 105>>)) EXCEPT !.flag = 8]),
   Bytes(<<1, 2, 3>>), Take(Serialize(MakeGive(5, <<>>, Bytes(<<104, 105>>))), 9)}
  \cup {Serialize(Fragment(DataOf(60001, 1048576), GIVE, 0)[k]) : k \in 1..2}
\* what the server is asked to broadcast: "tick:1" and an oversize payload
CastData == {Bytes(<<116, 105, 99, 107, 58, 49>>), DataOf(60001, 25000)}
AckTraffic ==
  {[data |-> d, host |-> "10.0.0.8", port |-> 7000] :
     d \in {Serialize(MakeSeen(0)), Serialize(MakePong(1)), Bytes(<<1, 2, 3>>)}}
ClientTraffic ==
  {[data |-> d, host |-> "10.0.0.8", port |-> 7000] : d \in ClientInputs}

\* the arguments of one socket.Send call
Frame(pkt, host, port) ==
  [data |-> Serialize(pkt), host |-> host, port |-> port]

\* a datagram sent to a socket with queue q is appended to q, or dropped by
\* the network or by a full queue
Arrive(q, dg) == {q} \cup (IF Len(q) < MaxSock THEN {Append(q, dg)} ELSE {})

\* the client queues after the server sent the frames out, in order
RECURSIVE Outcomes(_, _)
Outcomes(socks, out) ==
  IF out = <<>> THEN {socks}
  ELSE LET f == Head(out)
           to == [host |-> f.host, port |-> f.port]
           dg == [data |-> f.data, host |-> ServerAddr.host,
                  port |-> ServerAddr.port]
           next == IF to \in DOMAIN socks
                   THEN {[socks EXCEPT ![to] = q] : q \in Arrive(socks[to], dg)}
                   ELSE {socks}
       IN UNION {Outcomes(s2, Tail(out)) : s2 \in next}

\* ---- HeroServer ----

\* mutant: the acknowledgement carries sequence number 0
Ack_Zero(pkt) == MakeSeen(0)

\* Packet.MakeSeen(pkt.seq)
Ack(pkt) == MakeSeen(pkt.seq)

\* mutant: the new record keeps the payload as key
Registered_Payload(cl, host, port, pkt, t) ==
  [k \in DOMAIN cl \cup {MakeClientKey(host, port)} |->
     IF k = MakeClientKey(host, port)
     THEN [host |-> host, port |-> port, pubkey |-> pkt.payload,
           last_seen |-> t, last_ping |-> t]
     ELSE cl[k]]

\* clients[client_key] = new Client {...}
Registered(cl, host, port, pkt, t) ==
  [k \in DOMAIN cl \cup {MakeClientKey(host, port)} |->
     IF k = MakeClientKey(host, port)
     THEN [host |-> host, port |-> port, pubkey |-> pkt.requirements,
           last_seen |-> t, last_ping |-> t]
     ELSE cl[k]]

\* mutant: STOP leaves the record in place
Removed_Keep(cl, key) == cl

\* clients.Remove(client_key)
Removed(cl, key) == [k \in DOMAIN cl \ {key} |-> cl[k]]

\* mutant: a PING refreshes last_seen
PingTouched_Seen(cl, key, t) ==
  IF key \in DOMAIN cl THEN [cl EXCEPT ![key].last_seen = t] ELSE cl

\* clients[client_key].last_ping = now, when the key is present
PingTouched(cl, key, t) ==
  IF key \in DOMAIN cl THEN [cl EXCEPT ![key].last_ping = t] ELSE cl

\* mutant: an inbound from an unknown address creates a record
SeenTouched_Adds(cl, key, t) ==
  [k \in DOMAIN cl \cup {key} |->
     IF k \in DOMAIN cl THEN [cl[k] EXCEPT !.last_seen = t]
     ELSE [host |-> key[1], port |-> key[3], pubkey |-> <<>>,
           last_seen |-> t, last_ping |-> t]]

\* clients[client_key].last_seen = now, when the key is present
SeenTouched(cl, key, t) ==
  IF key \in DOMAIN cl THEN [cl EXCEPT ![key].last_seen = t] ELSE cl

\* SendTo(data, host, port) with the engine counter at msg_id: the frames
SendTo(data, host, port, msg_id) ==
  IF Count(data) <= MAX_PAYLOAD_SIZE
  THEN <<Frame(MakeGive(0, <<>>, data), host, port)>>
  ELSE LET fragments == Fragment(data, GIVE, msg_id)
       IN [k \in 1..Len(fragments) |-> Frame(fragments[k], host, port)]

\* the caller's handler: what it sends and whether it throws
Handler(h, pkt, host, port) ==
  [out |-> IF h = "reply" THEN SendTo(ReplyData, host, port, 0) ELSE <<>>,
   threw |-> h = "throw"]

\* mutant: the handler runs before the SEEN is sent
SeenThenHandler_Swapped(seen, out) == out \o <<seen>>

\* the final branch of Poll sends the SEEN, then invokes the handler: the
\* frames in the order they reach the socket
SeenThenHandler(seen, out) == <<seen>> \o out

\* the branches of Poll on pkt.flag
Dispatch(pkt, host, port, cl, t, h) ==
  LET key == MakeClientKey(host, port)
  IN IF pkt.flag = CONN
     THEN [clients |-> Registered(cl, host, port, pkt, t),
           out |-> <<Frame(Ack(pkt), host, port)>>,
           handled |-> None, threw |-> FALSE]
     ELSE IF pkt.flag = STOP
     THEN [clients |-> Removed(cl, key),
           out |-> <<Frame(Ack(pkt), host, port)>>,
           handled |-> None, threw |-> FALSE]
     ELSE IF pkt.flag = PING
     THEN [clients |-> PingTouched(cl, key, t),
           out |-> <<Frame(MakePong(pkt.seq), host, port)>>,
           handled |-> None, threw |-> FALSE]
     ELSE [clients |-> SeenTouched(cl, key, t),
           out |-> SeenThenHandler(Frame(Ack(pkt), host, port),
                                   IF h = "null" THEN <<>>
                                   ELSE Handler(h, pkt, host, port).out),
           handled |-> IF h = "null" THEN None
                       ELSE Some([pkt |-> pkt, host |-> host, port |-> port]),
           threw |-> h # "null" /\ Handler(h, pkt, host, port).threw]

\* mutant: the catch block rethrows
Caught_Rethrow(r) == [r EXCEPT !.raised = TRUE]

\* catch { }: the exception ends in Poll, which goes on after the if
Caught(r) == r

\* the end of Poll when nothing was read or an exception was swallowed
PollFallThrough(msgs, cl, sock, rd, out, hd, t) ==
  [messages |-> CleanupStale(msgs, t, 30), clients |-> cl, sock |-> sock,
   polled |-> rd, out |-> out, handled |-> hd, ret |-> FALSE,
   threw |-> FALSE, raised |-> FALSE]

\* Poll(handler) of a running server at time t
PollRunning(h, msgs, cl, sock, t) ==
  IF sock = <<>>
  THEN PollFallThrough(msgs, cl, sock, None, <<>>, None, t)
  ELSE
    LET dg == Head(sock)
        rest == Tail(sock)
        dec == Deserialize(dg.data)
    IN IF ~dec.ok
       THEN Caught(PollFallThrough(msgs, cl, rest, Some(dg), <<>>, None, t))
       ELSE
         LET isFrag == dec.pkt.flag = FRAG
             result == AddFragment(msgs, dec.pkt, t)
         IN IF isFrag /\ ~result.complete
            THEN [messages |-> result.messages, clients |-> cl, sock |-> rest,
                  polled |-> Some(dg), out |-> <<>>, handled |-> None,
                  ret |-> FALSE, threw |-> FALSE, raised |-> FALSE]
            ELSE IF isFrag /\ result.data.null
            THEN Caught(PollFallThrough(result.messages, cl, rest, Some(dg),
                                        <<>>, None, t))
            ELSE
              LET pkt == IF isFrag
                         THEN Packet(result.flag, dec.pkt.seq, <<>>,
                                     result.data.bytes)
                         ELSE dec.pkt
                  msgs1 == IF isFrag THEN result.messages ELSE msgs
                  pre == IF isFrag
                         THEN <<Frame(MakeSeen(pkt.seq), dg.host, dg.port)>>
                         ELSE <<>>
                  d == Dispatch(pkt, dg.host, dg.port, cl, t, h)
              IN IF d.threw
                 THEN Caught([PollFallThrough(msgs1, d.clients, rest,
                                              Some(dg), pre \o d.out,
                                              d.handled, t)
                                EXCEPT !.threw = TRUE])
                 ELSE [messages |-> msgs1, clients |-> d.clients,
                       sock |-> rest, polled |-> Some(dg),
                       out |-> pre \o d.out, handled |-> d.handled,
                       ret |-> TRUE, threw |-> FALSE, raised |-> FALSE]

Poll(h) ==
  \E r \in {IF running THEN PollRunning(h, messages, clients, srvSock, now)
            ELSE [messages |-> messages, clients |-> clients,
                  sock |-> srvSock, polled |-> None, out |-> <<>>,
                  handled |-> None, ret |-> FALSE, threw |-> FALSE,
                  raised |-> FALSE]} :
     /\ messages' = r.messages /\ clients' = r.clients /\ srvSock' = r.sock
     /\ polled' = r.polled /\ sent' = r.out /\ handled' = r.handled
     /\ pollRet' = r.ret
     /\ handlerThrew' = r.threw /\ pollRaised' = r.raised
     /\ cliSock' \in Outcomes(cliSock, r.out)
     /\ awaitingStop' = IF running THEN {} ELSE awaitingStop
     /\ UNCHANGED <<now, running, cli, cast, listening, codecVars, fragVars>>

Start ==
  /\ ~running /\ running' = TRUE
  /\ UNCHANGED <<now, clients, srvSock, cli, cliSock, pollVars, awaitingStop,
                 listening, messages, codecVars, fragVars>>

Stop ==
  /\ running /\ running' = FALSE
  /\ UNCHANGED <<now, clients, srvSock, cli, cliSock, pollVars, awaitingStop,
                 listening, messages, codecVars, fragVars>>

\* mutant: the sweep looks at last_ping
StaleClientsRemoved_ByPing(cl, t, timeout_seconds) ==
  [k \in {key \in DOMAIN cl :
            ~(t - cl[key].last_ping > timeout_seconds * 1000)} |-> cl[k]]

\* CleanupStaleClients(timeout_seconds)
StaleClientsRemoved(cl, t, timeout_seconds) ==
  [k \in {key \in DOMAIN cl :
            ~(t - cl[key].last_seen > timeout_seconds * 1000)} |-> cl[k]]

CleanupStaleClients ==
  /\ clients' = StaleClientsRemoved(clients, now, 30)
  /\ clients' # clients
  /\ UNCHANGED <<now, running, srvSock, cli, cliSock, pollVars, awaitingStop,
                 listening, messages, codecVars, fragVars>>

\* the sequences that list every element of the set S once
RECURSIVE Orders(_)
Orders(S) ==
  IF S = {} THEN {<<>>}
  ELSE UNION {{<<x>> \o o : o \in Orders(S \ {x})} : x \in S}

\* mutant: the loop of Broadcast stops after the first peer
BroadcastFrames_First(cl, order, data, msg_id) ==
  IF order = <<>> THEN <<>>
  ELSE SendTo(data, cl[Head(order)].host, cl[Head(order)].port, msg_id)

RECURSIVE BroadcastFrames(_, _, _, _)
\* the foreach of Broadcast over the registry cl enumerated in this order,
\* with the engine counter at msg_id: the frames sent
BroadcastFrames(cl, order, data, msg_id) ==
  IF order = <<>> THEN <<>>
  ELSE SendTo(data, cl[Head(order)].host, cl[Head(order)].port, msg_id)
       \o BroadcastFrames(cl, Tail(order), data,
                          IF Count(data) <= MAX_PAYLOAD_SIZE THEN msg_id
                          ELSE U16(msg_id + 1))

\* Broadcast(data); the engine counter of the server is next_msg_id; one
\* call is explored
Broadcast(data) ==
  /\ cast = <<>>
  /\ \E order \in Orders(DOMAIN clients) :
       \E frames \in {BroadcastFrames(clients, order, data, next_msg_id)} :
          /\ cast' = Append(cast,
                            [data |-> data,
                             peers |-> {[host |-> clients[k].host,
                                         port |-> clients[k].port] :
                                           k \in DOMAIN clients},
                             frames |-> frames])
          /\ cliSock' \in Outcomes(cliSock, frames)
  /\ next_msg_id' = IF Count(data) <= MAX_PAYLOAD_SIZE THEN next_msg_id
                    ELSE U16(next_msg_id + Cardinality(DOMAIN clients))
  /\ UNCHANGED <<now, running, clients, srvSock, cli, polled, sent, handled,
                 pollRet, handlerThrew, pollRaised, awaitingStop, listening,
                 messages, codecVars, fData, fFlag, fSplit, fPkts, fFed,
                 fSurfaced>>

\* a datagram from some other sender reaches the idle server socket
RawSend(dg) ==
  /\ srvSock = <<>>
  /\ srvSock' = <<dg>>
  /\ UNCHANGED <<now, running, clients, cli, cliSock, pollVars, awaitingStop,
                 listening, messages, codecVars, fragVars>>

Tick ==
  /\ now + TickMs <= MaxTime
  /\ now' = now + TickMs
  /\ UNCHANGED <<running, clients, srvSock, cli, cliSock, pollVars,
                 awaitingStop, listening, messages, codecVars, fragVars>>

\* ---- HeroClient ----
SrvFrozen == UNCHANGED <<now, running, clients, pollVars, listening,
                         messages, codecVars, fragVars>>

\* ... while the clock may move
SrvFrozenButClock == UNCHANGED <<running, clients, pollVars, listening,
                                 messages, codecVars, fragVars>>

DatagramFrom(c, pkt) == [data |-> Serialize(pkt), host |-> c.host, port |-> c.port]

\* the value a call returned
Returned(op, ret) == [op |-> op, ret |-> ret]

\* socket.Send(pkt.Serialize(), server_host, server_port): the frame
ToServer(pkt) == Frame(pkt, ServerAddr.host, ServerAddr.port)

\* the queues possible after the datagrams dgs were sent in order
RECURSIVE ArriveAll(_, _)
ArriveAll(q, dgs) ==
  IF dgs = <<>> THEN {q}
  ELSE UNION {ArriveAll(q2, Tail(dgs)) : q2 \in Arrive(q, Head(dgs))}

\* the elements of the sequence s whose index is in S, in order
RECURSIVE Pick(_, _, _)
Pick(s, S, k) ==
  IF k > Len(s) THEN <<>>
  ELSE (IF k \in S THEN <<s[k]>> ELSE <<>>) \o Pick(s, S, k + 1)

\* the server queue after client c sent the packets pkts to the server
\* address: nothing is queued where no server socket is bound
Delivered(c, pkts) ==
  IF listening
  THEN ArriveAll(srvSock, [k \in DOMAIN pkts |-> DatagramFrom(c, pkts[k])])
  ELSE {srvSock}

\* mutant: the counter stays at its largest value
NextSeq_Saturate(n) == IF n = 65535 THEN 65535 ELSE n + 1

\* seq_num++ on a ushort
NextSeq(n) == U16(n + 1)

\* numbered sends are explored while the counter is below MaxSeq or within
\* SeqMargin of its wrap
SeqMargin == 2
CanNumber(k) == (k.seq_num + SeqMargin) % 65536 < MaxSeq + SeqMargin

\* Connect(host, port, pubkey) up to the wait loop; ok is the result of
\* socket.Send
ConnectCall(c, pubkey, ok) ==
  /\ cli[c].call = "none" /\ CanNumber(cli[c])
  /\ LET conn_pkt == MakeConn(cli[c].seq_num, pubkey)
     IN IF ok
        THEN /\ srvSock' \in Delivered(c, <<conn_pkt>>)
             /\ cli' = [cli EXCEPT ![c].seq_num = NextSeq(@),
                                   ![c].call = "Connect",
                                   ![c].start = now,
                                   ![c].emitted = <<ToServer(conn_pkt)>>]
        ELSE /\ srvSock' = srvSock
             /\ cli' = [cli EXCEPT ![c].seq_num = NextSeq(@),
                                   ![c].emitted = <<ToServer(conn_pkt)>>,
                                   ![c].last = Returned("Connect", FALSE)]
  /\ UNCHANGED <<cliSock, awaitingStop>>
  /\ SrvFrozen

\* mutant: any decodable datagram ends the wait with success
ConnectAccepts_Any(pkt) == TRUE

\* the test of the wait loop of Connect on a decoded datagram
ConnectAccepts(pkt) == pkt.flag = SEEN

\* one iteration of the wait loop of Connect that reads a datagram
ConnectRecv(c) ==
  /\ cli[c].call = "Connect"
  /\ now - cli[c].start < DEFAULT_TIMEOUT_MS
  /\ cliSock[c] # <<>>
  /\ cliSock' = [cliSock EXCEPT ![c] = Tail(@)]
  /\ LET dg == Head(cliSock[c])
         dec == Deserialize(dg.data)
     IN IF dec.ok /\ ConnectAccepts(dec.pkt)
        THEN cli' = [cli EXCEPT ![c].rx = Some(dg),
                                ![c].connected = TRUE,
                                ![c].last_ping = now,
                                ![c].call = "none",
                                ![c].last = Returned("Connect", TRUE)]
        ELSE cli' = [cli EXCEPT ![c].rx = Some(dg)]
  /\ UNCHANGED <<srvSock, awaitingStop>>
  /\ SrvFrozen

\* the wait loop of Connect ends at the deadline
ConnectTimeout(c) ==
  /\ cli[c].call = "Connect"
  /\ ~(now - cli[c].start < DEFAULT_TIMEOUT_MS)
  /\ cli' = [cli EXCEPT ![c].call = "none",
                        ![c].last = Returned("Connect", FALSE)]
  /\ UNCHANGED <<srvSock, cliSock, awaitingStop>>
  /\ SrvFrozen

\* mutant: the connected test is missing
NotConnected_Skip(k) == FALSE

\* if (!connected) return false;
NotConnected(k) == ~k.connected

\* the body of Send(data, recipient_key) called as op; recipient_key may be
\* Null; ok is the result of socket.Send
SendAs(c, op, data, recipient_key, ok) ==
  /\ cli[c].call = "none" /\ CanNumber(cli[c])
  /\ IF NotConnected(cli[c])
     THEN /\ cli' = [cli EXCEPT ![c].last = Returned(op, FALSE),
                                ![c].emitted = <<>>]
          /\ srvSock' = srvSock
     ELSE LET key == IF recipient_key.null THEN <<>> ELSE recipient_key.bytes
              pkt == MakeGive(cli[c].seq_num, key, data)
          IN /\ cli' = [cli EXCEPT ![c].seq_num = NextSeq(@),
                                   ![c].emitted = <<ToServer(pkt)>>,
                                   ![c].last = Returned(op, ok)]
             /\ IF ok THEN srvSock' \in Delivered(c, <<pkt>>)
                ELSE srvSock' = srvSock
  /\ UNCHANGED <<cliSock, awaitingStop>>
  /\ SrvFrozen

Send(c, data, recipient_key, ok) == SendAs(c, "Send", data, recipient_key, ok)

\* mutant: SendLarge fragments whatever exceeds one chunk
FitsOnePacket_Chunk(data) == Count(data) <= ChunkSize

\* data.Count <= Protocol.MAX_PAYLOAD_SIZE
FitsOnePacket(data) == Count(data) <= MAX_PAYLOAD_SIZE

\* SendLarge(data, recipient_key); accepted is the set of packets for which
\* socket.Send returned true
SendLarge(c, data, recipient_key, accepted) ==
  IF NotConnected(cli[c]) \/ FitsOnePacket(data)
  THEN /\ accepted \in {{}, {1}}
       /\ SendAs(c, "SendLarge", data, recipient_key, accepted = {1})
  ELSE
    /\ cli[c].call = "none" /\ cli[c].next_msg_id < MaxMsgs
    /\ LET fragments == Fragment(data, GIVE, cli[c].next_msg_id)
       IN /\ accepted \subseteq 1..Len(fragments)
          /\ cli' = [cli EXCEPT
                       ![c].next_msg_id = U16(@ + 1),
                       ![c].emitted =
                          [k \in 1..Len(fragments) |-> ToServer(fragments[k])],
                       ![c].last = Returned("SendLarge",
                                            accepted = 1..Len(fragments))]
          /\ srvSock' \in Delivered(c, Pick(fragments, accepted, 1))
    /\ UNCHANGED <<cliSock, awaitingStop>>
    /\ SrvFrozen

\* mutant: Disconnect sends its STOP whatever the connected flag says
IsConnected_Always(k) == TRUE

\* if (connected) of Disconnect
IsConnected(k) == k.connected

\* Disconnect()
Disconnect(c) ==
  /\ cli[c].call = "none" /\ CanNumber(cli[c])
  /\ IF IsConnected(cli[c])
     THEN /\ srvSock' \in Delivered(c, <<MakeStop(cli[c].seq_num)>>)
          /\ cli' = [cli EXCEPT ![c].seq_num = NextSeq(@),
                                ![c].connected = FALSE,
                                ![c].emitted =
                                   <<ToServer(MakeStop(cli[c].seq_num))>>,
                                ![c].last = Returned("Disconnect", TRUE)]
          /\ awaitingStop' = awaitingStop \cup {c}
     ELSE /\ srvSock' = srvSock
          /\ cli' = [cli EXCEPT ![c].emitted = <<>>,
                                ![c].last = Returned("Disconnect", TRUE)]
          /\ awaitingStop' = awaitingStop
  /\ UNCHANGED cliSock
  /\ SrvFrozen

\* ---- MagicWords ----
\* the bytes of the array b one by one
RECURSIVE Expand(_)
Expand(b) ==
  IF b = <<>> THEN <<>>
  ELSE [i \in 1..Head(b)[2] |-> Head(b)[1]] \o Expand(Tail(b))

\* Encoding.UTF8.GetBytes, for characters below U+0800
RECURSIVE UTF8GetBytes(_)
UTF8GetBytes(str) ==
  IF str = <<>> THEN <<>>
  ELSE Cat(IF Head(str) < 128 THEN Bytes(<<Head(str)>>)
           ELSE Bytes(<<192 + (Head(str) \div 64), 128 + (Head(str) % 64)>>),
           UTF8GetBytes(Tail(str)))

\* Encoding.UTF8.GetString on the bytes bs, one- and two-byte sequences; any
\* other byte becomes U+FFFD
RECURSIVE Utf8Chars(_)
Utf8Chars(bs) ==
  IF bs = <<>> THEN <<>>
  ELSE IF bs[1] < 128 THEN <<bs[1]>> \o Utf8Chars(Tail(bs))
  ELSE IF bs[1] \in 194..223 /\ Len(bs) >= 2 /\ bs[2] \in 128..191
  THEN <<(bs[1] - 192) * 64 + (bs[2] - 128)>>
       \o Utf8Chars(SubSeq(bs, 3, Len(bs)))
  ELSE <<65533>> \o Utf8Chars(Tail(bs))

UTF8GetString(data) == Utf8Chars(Expand(data))

\* the arguments of a command: strings and doubles (units and tenths)
Str(text) == [kind |-> "string", text |-> text]
Dbl(units, tenths) == [kind |-> "double", units |-> units, tenths |-> tenths]

\* the decimal digits of n
RECURSIVE Digits(_)
Digits(n) ==
  IF n < 10 THEN <<48 + n>> ELSE Digits(n \div 10) \o <<48 + (n % 10)>>

\* arg.ToString(): a string is itself; a double is written with the
\* decimal separator '.'
ObjectToString(arg) ==
  IF arg.kind = "string" THEN arg.text
  ELSE IF arg.tenths = 0 THEN Digits(arg.units)
  ELSE Digits(arg.units) \o <<46>> \o Digits(arg.tenths)

\* MagicWords.Register(word, code) on the dictionary words
Register(words, word, code) ==
  IF Len(code) # 2 THEN [threw |-> TRUE, words |-> words]
  ELSE [threw |-> FALSE,
        words |-> [w \in DOMAIN words \cup {word} |->
                     IF w = word THEN code ELSE words[w]]]

\* MagicWords.Get(word) on the dictionary words
Get(words, word) == IF word \in DOMAIN words THEN words[word] ELSE word

\* mutant: the arguments are separated by ';', the last one left open
RECURSIVE EncodeArgs_Separated(_)
EncodeArgs_Separated(args) ==
  IF args = <<>> THEN <<>>
  ELSE IF Len(args) = 1 THEN UTF8GetBytes(ObjectToString(Head(args)))
  ELSE Cat(Cat(UTF8GetBytes(ObjectToString(Head(args))), Bytes(<<59>>)),
           EncodeArgs_Separated(Tail(args)))

RECURSIVE EncodeArgs(_)
\* the foreach of Encode: each argument followed by ';'
EncodeArgs(args) ==
  IF args = <<>> THEN <<>>
  ELSE Cat(Cat(UTF8GetBytes(ObjectToString(Head(args))), Bytes(<<59>>)),
           EncodeArgs(Tail(args)))

\* MagicWords.Encode(word, args) on the dictionary words
Encode(words, word, args) ==
  Cat(Cat(UTF8GetBytes(Get(words, word)), Bytes(<<124>>)), EncodeArgs(args))

\* str.IndexOf(ch): 0-based, -1 when absent
IndexOf(str, ch) ==
  IF \E i \in DOMAIN str : str[i] = ch
  THEN (CHOOSE i \in DOMAIN str :
          str[i] = ch /\ \A j \in 1..(i - 1) : str[j] # ch) - 1
  ELSE -1

\* str.Substring(from)
Substring(str, from) == SubSeq(str, from + 1, Len(str))

\* str.Split(ch): the pieces between the occurrences of ch, empty ones too
RECURSIVE Split(_, _)
Split(str, ch) ==
  LET at == IndexOf(str, ch)
  IN IF at = -1 THEN <<str>>
     ELSE <<SubSeq(str, 1, at)>> \o Split(Substring(str, at + 1), ch)

\* StringSplitOptions.RemoveEmptyEntries
RemoveEmptyEntries(pieces) == SelectSeq(pieces, LAMBDA x : x # <<>>)

\* MagicWords.Decode(data): Item1 the code, Item2 the arguments
Decode(data) ==
  LET str == UTF8GetString(data)
      pipe == IndexOf(str, 124)
  IN IF pipe = -1 THEN [Item1 |-> str, Item2 |-> <<>>]
     ELSE [Item1 |-> SubSeq(str, 1, pipe),
           Item2 |-> RemoveEmptyEntries(Split(Substring(str, pipe + 1), 59))]

\* SendCommand(command, args)
SendCommand(c, command, args, ok) ==
  SendAs(c, "SendCommand", Encode(customWords, command, args), Null, ok)

\* Ping() up to the wait loop; ok is the result of socket.Send and took the
\* milliseconds that pass between the clock reading ping_start and the
\* clock reading start, which follows socket.Send
PingCall(c, ok, took) ==
  /\ cli[c].call = "none" /\ CanNumber(cli[c])
  /\ IF NotConnected(cli[c])
     THEN /\ cli' = [cli EXCEPT ![c].last = Returned("Ping", FALSE),
                                ![c].emitted = <<>>]
          /\ srvSock' = srvSock /\ now' = now
     ELSE LET pkt == MakePing(cli[c].seq_num)
          IN /\ now + took <= MaxTime /\ now' = now + took
             /\ IF ok
                THEN /\ srvSock' \in Delivered(c, <<pkt>>)
                     /\ cli' = [cli EXCEPT ![c].seq_num = NextSeq(@),
                                           ![c].emitted = <<ToServer(pkt)>>,
                                           ![c].call = "Ping",
                                           ![c].ping_start = now,
                                           ![c].start = now + took]
                ELSE /\ srvSock' = srvSock
                     /\ cli' = [cli EXCEPT ![c].seq_num = NextSeq(@),
                                           ![c].emitted = <<ToServer(pkt)>>,
                                           ![c].ping_start = now,
                                           ![c].last = Returned("Ping", FALSE)]
  /\ UNCHANGED <<cliSock, awaitingStop>>
  /\ SrvFrozenButClock

\* the wait of Ping for a PONG, in milliseconds
PingWaitMs == 1000

\* mutant: the round trip is measured from the start of the wait loop
PingMs_FromStart(k, t) == t - k.start

\* (int)(DateTime.Now - ping_start).TotalMilliseconds
PingMs(k, t) == t - k.ping_start

\* one iteration of the wait loop of Ping that reads a datagram
PingRecv(c) ==
  /\ cli[c].call = "Ping"
  /\ now - cli[c].start < PingWaitMs
  /\ cliSock[c] # <<>>
  /\ cliSock' = [cliSock EXCEPT ![c] = Tail(@)]
  /\ LET dg == Head(cliSock[c])
         dec == Deserialize(dg.data)
     IN IF dec.ok /\ dec.pkt.flag = PONG
        THEN cli' = [cli EXCEPT ![c].rx = Some(dg),
                                ![c].ping_ms = PingMs(cli[c], now),
                                ![c].last_ping = now,
                                ![c].call = "none",
                                ![c].last = Returned("Ping", TRUE)]
        ELSE cli' = [cli EXCEPT ![c].rx = Some(dg)]
  /\ UNCHANGED <<srvSock, awaitingStop>>
  /\ SrvFrozen

\* the wait loop of Ping ends at the deadline
PingTimeout(c) ==
  /\ cli[c].call = "Ping"
  /\ ~(now - cli[c].start < PingWaitMs)
  /\ cli' = [cli EXCEPT ![c].call = "none",
                        ![c].last = Returned("Ping", FALSE)]
  /\ UNCHANGED <<srvSock, cliSock, awaitingStop>>
  /\ SrvFrozen

\* the default timeout_ms of Receive
ReceiveTimeoutMs == 100

\* Receive(out out_packet) up to its loop
ReceiveCall(c) ==
  /\ cli[c].call = "none"
  /\ cli' = [cli EXCEPT ![c].call = "Receive", ![c].start = now,
                        ![c].emitted = <<>>, ![c].rx = None,
                        ![c].out_packet = None]
  /\ UNCHANGED <<srvSock, cliSock, awaitingStop>>
  /\ SrvFrozen

\* the server queue after client c sent pkt to host:port
Replied(c, pkt, host, port) ==
  IF host = ServerAddr.host /\ port = ServerAddr.port
  THEN Delivered(c, <<pkt>>) ELSE {srvSock}

\* mutant: the acknowledgement of Receive carries sequence number 0
ReceiveAck_Zero(pkt) == MakeSeen(0)

\* Packet.MakeSeen(pkt.seq) in Receive
ReceiveAck(pkt) == MakeSeen(pkt.seq)

\* one iteration of the loop of Receive that reads a datagram, up to the
\* return statement it reaches
ReceiveRecv(c) ==
  /\ cli[c].call = "Receive"
  /\ now - cli[c].start < ReceiveTimeoutMs
  /\ cliSock[c] # <<>>
  /\ cliSock' = [cliSock EXCEPT ![c] = Tail(@)]
  /\ LET dg == Head(cliSock[c])
         dec == Deserialize(dg.data)
     IN IF ~dec.ok
        THEN /\ cli' = [cli EXCEPT ![c].rx = Some(dg)]
             /\ srvSock' = srvSock
        ELSE IF dec.pkt.flag = FRAG
        THEN LET result == AddFragment(cli[c].messages, dec.pkt, now)
                 out == Packet(result.flag, dec.pkt.seq, <<>>,
                               result.data.bytes)
             IN IF result.complete /\ ~result.data.null
                THEN /\ cli' = [cli EXCEPT
                                  ![c].messages = result.messages,
                                  ![c].rx = Some(dg),
                                  ![c].out_packet = Some(out),
                                  ![c].emitted =
                                     <<Frame(MakeSeen(out.seq), dg.host,
                                             dg.port)>>,
                                  ![c].call = "Receive.return"]
                     /\ srvSock' \in Replied(c, MakeSeen(out.seq), dg.host,
                                             dg.port)
                ELSE /\ cli' = [cli EXCEPT ![c].messages = result.messages,
                                           ![c].rx = Some(dg)]
                     /\ srvSock' = srvSock
        ELSE /\ cli' = [cli EXCEPT
                          ![c].rx = Some(dg),
                          ![c].emitted =
                             <<Frame(ReceiveAck(dec.pkt), dg.host, dg.port)>>,
                          ![c].out_packet = Some(dec.pkt),
                          ![c].call = "Receive.return"]
             /\ srvSock' \in Replied(c, ReceiveAck(dec.pkt), dg.host, dg.port)
  /\ UNCHANGED awaitingStop
  /\ SrvFrozen

\* return true; of Receive
ReceiveReturn(c) ==
  /\ cli[c].call = "Receive.return"
  /\ cli' = [cli EXCEPT
               ![c].call = "none",
               ![c].last = Returned("Receive", TRUE),
               ![c].inbox =
                  IF @.set /\ cli[c].out_packet.val.flag = GIVE
                  THEN Some(Append(@.val, cli[c].out_packet.val)) ELSE @]
  /\ UNCHANGED <<srvSock, cliSock, awaitingStop>>
  /\ SrvFrozen

\* the loop of Receive ends at the deadline
ReceiveTimeout(c) ==
  /\ cli[c].call = "Receive"
  /\ ~(now - cli[c].start < ReceiveTimeoutMs)
  /\ cli' = [cli EXCEPT ![c].messages = CleanupStale(@, now, 30),
                        ![c].call = "none",
                        ![c].last = Returned("Receive", FALSE)]
  /\ UNCHANGED <<srvSock, cliSock, awaitingStop>>
  /\ SrvFrozen

\* a datagram from some other sender reaches the idle socket of client c
RawToClient(c, dg) ==
  /\ cliSock[c] = <<>>
  /\ cliSock' = [cliSock EXCEPT ![c] = <<dg>>]
  /\ UNCHANGED <<srvSock, cli, awaitingStop>>
  /\ SrvFrozen

InitNet ==
  /\ NetIdle /\ messages = <<>> /\ CodecIdle /\ FragIdle

NextNet ==
  \/ Start
  \/ Stop
  \/ \E h \in Handlers : Poll(h)
  \/ CleanupStaleClients
  \/ Tick
  \/ \E c \in DOMAIN cli, k \in PubKeys, ok \in BOOLEAN : ConnectCall(c, k, ok)
  \/ \E c \in DOMAIN cli : ConnectRecv(c)
  \/ \E c \in DOMAIN cli : ConnectTimeout(c)
  \/ \E c \in DOMAIN cli, d \in SmallData, ok \in BOOLEAN :
        Send(c, d, Null, ok)
  \/ \E c \in DOMAIN cli : Disconnect(c)

SpecNet == InitNet /\ [][NextNet]_vars

\* the server alone, fed by other senders
NextServer ==
  \/ Start
  \/ Stop
  \/ \E h \in Handlers : Poll(h)
  \/ CleanupStaleClients
  \/ \E dg \in RawTraffic : RawSend(dg)
  \/ Tick

SpecServer == InitNet /\ [][NextServer]_vars

\* a client alone: no server is bound at the address it sends to, and other
\* senders put datagrams on its socket
InitClient ==
  /\ NetFields /\ listening = FALSE /\ messages = <<>> /\ CodecIdle /\ FragIdle

\* ... its sending side
NextClient ==
  \/ Tick
  \/ \E c \in DOMAIN cli, k \in PubKeys, ok \in BOOLEAN : ConnectCall(c, k, ok)
  \/ \E c \in DOMAIN cli : ConnectRecv(c)
  \/ \E c \in DOMAIN cli : ConnectTimeout(c)
  \/ \E c \in DOMAIN cli, a \in SendArgs, ok \in BOOLEAN :
        Send(c, a.data, a.key, ok)
  \/ \E c \in DOMAIN cli, a \in SendArgs, acc \in SUBSET (1..2) :
        SendLarge(c, a.data, a.key, acc)
  \/ \E c \in DOMAIN cli, w \in Commands, ok \in BOOLEAN :
        SendCommand(c, w.command, w.args, ok)
  \/ \E c \in DOMAIN cli, ok \in BOOLEAN : PingCall(c, ok, 0)
  \/ \E c \in DOMAIN cli : PingRecv(c)
  \/ \E c \in DOMAIN cli : PingTimeout(c)
  \/ \E c \in DOMAIN cli : Disconnect(c)
  \/ \E c \in DOMAIN cli, dg \in AckTraffic : RawToClient(c, dg)

SpecClient == InitClient /\ [][NextClient]_vars

\* ... its receiving side
NextRecv ==
  \/ Tick
  \/ \E c \in DOMAIN cli, ok \in BOOLEAN : ConnectCall(c, Bytes(<<9>>), ok)
  \/ \E c \in DOMAIN cli : ConnectRecv(c)
  \/ \E c \in DOMAIN cli : ConnectTimeout(c)
  \/ \E c \in DOMAIN cli : ReceiveCall(c)
  \/ \E c \in DOMAIN cli : ReceiveRecv(c)
  \/ \E c \in DOMAIN cli : ReceiveReturn(c)
  \/ \E c \in DOMAIN cli : ReceiveTimeout(c)
  \/ \E c \in DOMAIN cli, dg \in ClientTraffic : RawToClient(c, dg)

SpecRecv == InitClient /\ [][NextRecv]_vars

\* the clock advances by ms
Wait(ms) ==
  /\ now + ms <= MaxTime
  /\ now' = now + ms
  /\ UNCHANGED <<running, clients, srvSock, cli, cliSock, pollVars,
                 awaitingStop, listening, messages, codecVars, fragVars>>

\* a client pinging: the clock is followed for PingHorizon milliseconds in
\* steps of WaitSteps, and socket.Send takes one of SendTookMs
PingHorizon == 1600
WaitSteps == {499, 500}
SendTookMs == {0, 2}

NextPing ==
  \/ \E ms \in WaitSteps : now + ms <= PingHorizon /\ Wait(ms)
  \/ \E c \in DOMAIN cli :
        cli[c].seq_num = 0 /\ ConnectCall(c, Bytes(<<9>>), TRUE)
  \/ \E c \in DOMAIN cli : ConnectRecv(c)
  \/ \E c \in DOMAIN cli, ok \in BOOLEAN, took \in SendTookMs :
        PingCall(c, ok, took)
  \/ \E c \in DOMAIN cli : PingRecv(c)
  \/ \E c \in DOMAIN cli : PingTimeout(c)
  \/ \E c \in DOMAIN cli, dg \in AckTraffic : RawToClient(c, dg)

SpecPing == InitClient /\ [][NextPing]_vars

\* how many of the frames fr are addressed to a
FramesFor(fr, a) ==
  Len(SelectSeq(fr, LAMBDA f : f.host = a.host /\ f.port = a.port))

\* a step of the server over a link that loses nothing: every frame it sent
\* to a client is on the socket of that client
LossFreePoll ==
  \A c \in DOMAIN cliSock :
     Len(cliSock'[c]) = Len(cliSock[c]) + FramesFor(sent', c)

\* a step of client c over a link that loses nothing: every frame the step
\* handed to the socket for the server is on the server socket
LossFreeClient(c) ==
  Len(srvSock') =
    Len(srvSock) + (IF cli'[c].emitted # cli[c].emitted
                    THEN FramesFor(cli'[c].emitted, ServerAddr) ELSE 0)

\* one client and one server over a link that loses nothing: the client
\* connects once, sends a few messages and calls Receive; the server is
\* started and calls Poll with a handler that sends nothing; no deadline
\* passes
QuietPoll == Poll("quiet") /\ LossFreePoll
QuietConnect(c) ==
  /\ cli[c].seq_num = 0 /\ ConnectCall(c, Bytes(<<1, 2, 3, 4>>), TRUE)
  /\ LossFreeClient(c)
QuietSend(c) ==
  \E d \in SmallData : Send(c, d, Null, TRUE) /\ LossFreeClient(c)
QuietReceive(c) ==
  \/ ReceiveCall(c)
  \/ ReceiveRecv(c) /\ LossFreeClient(c)
  \/ ReceiveReturn(c)

NextQuiet ==
  \/ Start
  \/ QuietPoll
  \/ \E c \in DOMAIN cli : QuietConnect(c)
  \/ \E c \in DOMAIN cli : ConnectRecv(c)
  \/ \E c \in DOMAIN cli : QuietSend(c)
  \/ \E c \in DOMAIN cli : QuietReceive(c)

SpecQuiet == InitNet /\ [][NextQuiet]_vars

\* a step in which Poll of the running server reads the head of its socket
PollReads == running /\ srvSock # <<>> /\ srvSock' = Tail(srvSock)

\* a step in which Receive of client c reads the head of its socket
ReceiveReads(c) ==
  /\ cli[c].call = "Receive" /\ cliSock[c] # <<>>
  /\ cliSock'[c] = Tail(cliSock[c])

\* the server is started and keeps calling Poll, the client keeps calling
\* Receive and a call in progress goes on: weak fairness of Start, of the
\* Poll and Receive steps that read a datagram (written with their enabling
\* conditions) and of the other steps of Connect and Receive
SpecQuietFair ==
  /\ SpecQuiet
  /\ WF_vars(Start)
  /\ ([]<>~(running /\ srvSock # <<>>) \/ []<><<PollReads>>_vars)
  /\ \A c \in ClientAddrs :
       /\ WF_vars(ConnectRecv(c))
       /\ WF_vars(ReceiveCall(c)) /\ WF_vars(ReceiveReturn(c))
       /\ \/ []<>~(cli[c].call = "Receive" /\ cliSock[c] # <<>>)
          \/ []<><<ReceiveReads(c)>>_vars

\* a client over its life: new, or connected with 65534 numbered packets
\* behind it, the last of them a GIVE
WornClient ==
  [NewClient(FALSE) EXCEPT
     !.seq_num = 65534, !.connected = TRUE,
     !.last = Returned("Send", TRUE),
     !.emitted = <<ToServer(MakeGive(65533, <<>>, Bytes(<<104, 105>>)))>>]

InitSeq ==
  /\ now = 0 /\ running = FALSE /\ clients = <<>> /\ srvSock = <<>>
  /\ cli \in [ClientAddrs -> {NewClient(FALSE), WornClient}]
  /\ cliSock = [c \in ClientAddrs |-> <<>>]
  /\ polled = None /\ sent = <<>> /\ handled = None /\ pollRet = FALSE
  /\ handlerThrew = FALSE /\ pollRaised = FALSE /\ cast = <<>>
  /\ awaitingStop = {} /\ listening = FALSE
  /\ messages = <<>> /\ CodecIdle /\ FragIdle

\* what other senders put on the socket of the client in this scenario
SeqTraffic ==
  {[data |-> d, host |-> "10.0.0.8", port |-> 7000] :
     d \in {Serialize(MakeSeen(0)), Serialize(MakePong(1)),
            Serialize(MakeGive(5, <<>>, Bytes(<<104, 105>>)))}}

NextSeqNum ==
  \/ \E c \in DOMAIN cli, ok \in BOOLEAN : ConnectCall(c, Bytes(<<9>>), ok)
  \/ \E c \in DOMAIN cli : ConnectRecv(c)
  \/ \E c \in DOMAIN cli, d \in SmallData, ok \in BOOLEAN :
        Send(c, d, Null, ok)
  \/ \E c \in DOMAIN cli, d \in LargeData : SendLarge(c, d, Null, {1, 2})
  \/ \E c \in DOMAIN cli, ok \in BOOLEAN : PingCall(c, ok, 0)
  \/ \E c \in DOMAIN cli : PingRecv(c)
  \/ \E c \in DOMAIN cli : Disconnect(c)
  \/ \E c \in DOMAIN cli : ReceiveCall(c)
  \/ \E c \in DOMAIN cli : ReceiveRecv(c)
  \/ \E c \in DOMAIN cli : ReceiveReturn(c)
  \/ \E c \in DOMAIN cli, dg \in SeqTraffic : RawToClient(c, dg)

SpecSeq == InitSeq /\ [][NextSeqNum]_vars

\* the broadcast scenario: a server and two clients, each of which connects
\* once, receives and keeps what it received; no deadline passes
InitCast ==
  /\ NetFieldsFor(CastAddrs, TRUE) /\ listening = TRUE
  /\ messages = <<>> /\ CodecIdle /\ FragIdle

NextCast ==
  \/ Start
  \/ Poll("quiet")
  \/ \E d \in CastData : Broadcast(d)
  \/ \E c \in DOMAIN cli :
        cli[c].seq_num = 0 /\ ConnectCall(c, Bytes(<<1, 2, 3, 4>>), TRUE)
  \/ \E c \in DOMAIN cli : ConnectRecv(c)
  \/ \E c \in DOMAIN cli : ReceiveCall(c)
  \/ \E c \in DOMAIN cli : ReceiveRecv(c)
  \/ \E c \in DOMAIN cli : ReceiveReturn(c)

SpecCast == InitCast /\ [][NextCast]_vars

\* either end alone, reading what other senders put on its socket
InitEnds == InitNet \/ InitClient
NextEnds == (listening /\ NextServer) \/ (~listening /\ NextRecv)
SpecEnds == InitEnds /\ [][NextEnds]_vars

(***************************************************************************)
(* Command exercise                                                        *)
(***************************************************************************)
\* "MV", "JR", "ATK", "MOVE", "a|" and "ZZ", "JMP"
WordMV == <<77, 86>>
WordJR == <<74, 82>>
WordATK == <<65, 84, 75>>
WordMOVE == <<77, 79, 86, 69>>
WordAPipe == <<97, 124>>
WordZZ == <<90, 90>>
WordJMP == <<74, 77, 80>>
CommandWords == {WordMV, WordJR, WordATK, WordMOVE, WordAPipe}

\* argument lists: none; 100.5 and 250.3; "hello world"; 7 and "caf" U+00E9;
\* one empty string; "a", an empty string and "b"; "x;y"
CommandArgs ==
  {<<>>, <<Dbl(100, 5), Dbl(250, 3)>>,
   <<Str(<<104, 101, 108, 108, 111, 32, 119, 111, 114, 108, 100>>)>>,
   <<Dbl(7, 0), Str(<<99, 97, 102, 233>>)>>,
   <<Str(<<>>)>>, <<Str(<<97>>), Str(<<>>), Str(<<98>>)>>,
   <<Str(<<120, 59, 121>>)>>}

\* what callers register: "MOVE" as "MV", "MV" as "ZZ", "JR" as "JMP"
Registrations ==
  {[word |-> WordMOVE, code |-> WordMV], [word |-> WordMV, code |-> WordZZ],
   [word |-> WordJR, code |-> WordJMP]}

InitWords ==
  /\ customWords = <<>> /\ regThrew = FALSE
  /\ wCmd \in [word : CommandWords, args : CommandArgs]
  /\ wBytes = None /\ wBack = None
  /\ cPkt = MakeSeen(0) /\ cWire = None /\ cBack = None /\ cAgain = None
  /\ FragIdle /\ messages = <<>> /\ NetIdle

\* a caller registers a word before the command is encoded
RegisterStep(word, code) ==
  /\ wBytes = None
  /\ LET r == Register(customWords, word, code)
     IN customWords' = r.words /\ regThrew' = r.threw
  /\ UNCHANGED <<wCmd, wBytes, wBack, cPkt, cWire, cBack, cAgain, fragVars,
                 messages, netVars>>

EncodeStep ==
  /\ wBytes = None
  /\ wBytes' = Some(Encode(customWords, wCmd.word, wCmd.args))
  /\ UNCHANGED <<customWords, regThrew, wCmd, wBack, cPkt, cWire, cBack,
                 cAgain, fragVars, messages, netVars>>

DecodeStep ==
  /\ wBytes.set /\ wBack = None
  /\ wBack' = Some(Decode(wBytes.val))
  /\ UNCHANGED <<customWords, regThrew, wCmd, wBytes, cPkt, cWire, cBack,
                 cAgain, fragVars, messages, netVars>>

NextWords ==
  \/ \E r \in Registrations : RegisterStep(r.word, r.code)
  \/ EncodeStep
  \/ DecodeStep

SpecWords == InitWords /\ [][NextWords]_vars

(***************************************************************************)
(* C24  Encode(word, args) is the word resolved through the registry (the  *)
(* word itself when it is not registered), then '|', then the text of each *)
(* argument followed by ';': every argument, the last included, is         *)
(* terminated by ';', and no arguments give just the code and '|'.         *)
(* Encode("MV", 100.5, 250.3) is "MV|100.5;250.3;".                        *)
(***************************************************************************)
\* the texts one after the other, each followed by ';'
RECURSIVE Terminated(_)
Terminated(texts) ==
  IF texts = <<>> THEN <<>>
  ELSE Head(texts) \o <<59>> \o Terminated(Tail(texts))

\* the texts of the arguments of the command
ArgTexts == [i \in DOMAIN wCmd.args |-> ObjectToString(wCmd.args[i])]

\* the code the registry gives for the word of the command
Resolved ==
  IF wCmd.word \in DOMAIN customWords THEN customWords[wCmd.word]
  ELSE wCmd.word

NoDelimiter(text) == \A i \in DOMAIN text : text[i] \notin {124, 59}

C23_CommandRoundTrip ==
  (/\ wBack.set /\ Len(wCmd.word) = 2
   /\ \A i \in DOMAIN ArgTexts : NoDelimiter(ArgTexts[i]))
  => (wBack.val.Item1 = wCmd.word /\ wBack.val.Item2 = ArgTexts)

(***************************************************************************)
(* Reading the last Poll call                                              *)
(***************************************************************************)
Dec(dg) == Deserialize(dg.data)

\* the last Poll read a datagram that decoded to a packet with flag f
PolledFlag(f) ==
  polled.set /\ Dec(polled.val).ok /\ Dec(polled.val).pkt.flag = f

\* the positions, among the frames fr, of the SEEN frames
SeenFrames(fr) ==
  {i \in DOMAIN fr : Dec(fr[i]).ok /\ Dec(fr[i]).pkt.flag = SEEN}

\* frame f is a SEEN with sequence number n sent to the source of dg
IsSeenFor(f, n, dg) ==
  /\ Dec(f).ok /\ Dec(f).pkt.flag = SEEN /\ Dec(f).pkt.seq = n
  /\ f.host = dg.host /\ f.port = dg.port

\* a step in which Poll of a running server reads the head of the socket
ReadStep == running /\ srvSock # <<>> /\ srvSock' = Tail(srvSock)
\* ... and that head decodes to a packet with flag f
ReadsFlag(f) ==
  ReadStep /\ Dec(Head(srvSock)).ok /\ Dec(Head(srvSock)).pkt.flag = f

(***************************************************************************)
(* C1  The Poll call that reads a decodable CONN, GIVE, TAKE or STOP       *)
(* datagram with sequence number N sends exactly one SEEN; it carries N     *)
(* and goes to the source of the datagram.                                 *)
(***************************************************************************)
C1_OneSeenPerInbound ==
  (\E f \in {CONN, GIVE, FlagTAKE, STOP} : PolledFlag(f)) =>
     \E i \in DOMAIN sent :
        /\ SeenFrames(sent) = {i}
        /\ IsSeenFor(sent[i], Dec(polled.val).pkt.seq, polled.val)

\* a TAKE with sequence number 7 was read, acknowledged once and answered
\* by the handler
C1_Witness ==
  /\ PolledFlag(FlagTAKE) /\ Dec(polled.val).pkt.seq = 7
  /\ Len(sent) = 2 /\ IsSeenFor(sent[1], 7, polled.val)
  /\ Dec(sent[2]).pkt.flag = GIVE

(***************************************************************************)
(* C2  An inbound SEEN or PONG is never acknowledged: the Poll call that   *)
(* reads one sends no frame at all.                                        *)
(***************************************************************************)
C2_AckNeverAcked ==
  (PolledFlag(SEEN) \/ PolledFlag(PONG)) => sent = <<>>

(***************************************************************************)
(* C3  Handshake: when Poll of a running server reads a CONN from an       *)
(* address without a peer record, the peer count grows by exactly one, the *)
(* new record's pubkey is the CONN's requirements and a SEEN with the      *)
(* CONN's sequence number is sent to that address.                         *)
(***************************************************************************)
C3_Handshake ==
  [][(ReadsFlag(CONN) /\ KeyOf(Head(srvSock)) \notin DOMAIN clients) =>
       /\ Cardinality(DOMAIN clients') = Cardinality(DOMAIN clients) + 1
       /\ KeyOf(Head(srvSock)) \in DOMAIN clients'
       /\ clients'[KeyOf(Head(srvSock))].pubkey =
            Dec(Head(srvSock)).pkt.requirements
       /\ \E i \in DOMAIN sent' :
            IsSeenFor(sent'[i], Dec(Head(srvSock)).pkt.seq, Head(srvSock))]_vars

\* the second peer has just been registered with its key
C3_Witness ==
  /\ PolledFlag(CONN) /\ polled.val.host = "10.0.0.9"
  /\ Cardinality(DOMAIN clients) = 2
  /\ clients[KeyOf(polled.val)].pubkey = Bytes(<<9>>)
  /\ Len(sent) = 1 /\ IsSeenFor(sent[1], 4, polled.val)

(***************************************************************************)
(* C9  A fragment that arrives when the record of its message was last     *)
(* updated more than 30 s ago never completes the message from the stale   *)
(* chunks: the Poll call that reads it surfaces nothing.                   *)
(***************************************************************************)
C9_StaleNeverCompletes ==
  [][(/\ ReadsFlag(FRAG)
      /\ Count(Dec(Head(srvSock)).pkt.payload) >= 7
      /\ LET id == ToUInt16(Dec(Head(srvSock)).pkt.payload, 0)
         IN /\ id \in DOMAIN messages
            /\ now - messages[id].last_update > 30 * 1000)
     => (handled' = None /\ sent' = <<>>)]_vars

(***************************************************************************)
(* C4  Stop: after a connected client called Disconnect and its STOP is on *)
(* the server socket, the next Poll call of the running server removes the *)
(* client's peer record.                                                   *)
(***************************************************************************)
StopQueued(c) ==
  \E i \in DOMAIN srvSock :
     /\ srvSock[i].host = c.host /\ srvSock[i].port = c.port
     /\ Dec(srvSock[i]).ok /\ Dec(srvSock[i]).pkt.flag = STOP

C4_RemovedOnNextPoll ==
  [][\A c \in awaitingStop :
       (running /\ awaitingStop' = {} /\ StopQueued(c)) =>
          KeyOf(c) \notin DOMAIN clients']_vars

(***************************************************************************)
(* C4 (amended)  The Poll call that reads a STOP removes the peer record   *)
(* of the datagram's source and no other (the peer count drops by one when *)
(* a record existed) and sends exactly one SEEN, with the STOP's sequence  *)
(* number, to the source.                                                  *)
(***************************************************************************)
C4_StopRemovesPeer ==
  [][ReadsFlag(STOP) =>
       /\ DOMAIN clients' = DOMAIN clients \ {KeyOf(Head(srvSock))}
       /\ \A k \in DOMAIN clients' : clients'[k] = clients[k]
       /\ (KeyOf(Head(srvSock)) \in DOMAIN clients =>
             Cardinality(DOMAIN clients') = Cardinality(DOMAIN clients) - 1)
       /\ \E i \in DOMAIN sent' :
            /\ SeenFrames(sent') = {i}
            /\ IsSeenFor(sent'[i], Dec(Head(srvSock)).pkt.seq,
                         Head(srvSock))]_vars

\* the STOP of a client that disconnected has been read: record gone, SEEN
\* sent
C4_Witness ==
  \E c \in ClientAddrs :
     /\ PolledFlag(STOP) /\ KeyOf(polled.val) = KeyOf(c)
     /\ cli[c].last = Returned("Disconnect", TRUE) /\ ~cli[c].connected
     /\ cli[c].seq_num = 3
     /\ KeyOf(c) \notin DOMAIN clients
     /\ Len(sent) = 1 /\ IsSeenFor(sent[1], 2, polled.val)

(***************************************************************************)
(* C5  Connect returns true with the client connected when a SEEN arrives  *)
(* before the deadline; when it returns false the client is not connected  *)
(* afterwards, whatever its state before the call.                         *)
(***************************************************************************)
C5_ConnectResult ==
  \A c \in ClientAddrs :
     /\ cli[c].last = Returned("Connect", TRUE) => cli[c].connected
     /\ cli[c].last = Returned("Connect", FALSE) => ~cli[c].connected

(***************************************************************************)
(* C14  When Receive returns a packet it decoded from a GIVE or TAKE       *)
(* datagram with sequence number N, it has already sent exactly one frame: *)
(* a SEEN with sequence number N to the source of the datagram; the packet *)
(* handed to the caller is the decoded one.                                *)
(***************************************************************************)
C14_ReceiveAcksFirst ==
  [][\A c \in DOMAIN cli :
       (/\ cli[c].call = "Receive.return" /\ cli'[c].call = "none"
        /\ Dec(cli[c].rx.val).pkt.flag \in {GIVE, FlagTAKE})
       => /\ Len(cli[c].emitted) = 1
          /\ IsSeenFor(cli[c].emitted[1], Dec(cli[c].rx.val).pkt.seq,
                       cli[c].rx.val)
          /\ cli'[c].emitted = cli[c].emitted
          /\ cli'[c].out_packet = Some(Dec(cli[c].rx.val).pkt)
          /\ cli'[c].last = Returned("Receive", TRUE)]_vars

\* Receive returned the TAKE with sequence number 6 after acknowledging it
C14_Witness ==
  \E c \in DOMAIN cli :
     /\ cli[c].last = Returned("Receive", TRUE) /\ cli[c].call = "none"
     /\ cli[c].out_packet = Some(MakeTake(6, Bytes(<<7>>)))
     /\ cli[c].emitted = <<Frame(MakeSeen(6), "10.0.0.8", 7000)>>

(***************************************************************************)
(* Reading a datagram at either end                                        *)
(***************************************************************************)
\* a step in which a call of client c in progress reads the head of its
\* socket
ClientReads(c) ==
  /\ cli[c].call \in {"Connect", "Ping", "Receive"}
  /\ cliSock[c] # <<>> /\ cliSock'[c] = Tail(cliSock[c])

\* client c is as before the step, but for the datagram it last read
OnlyRead(c) == cli'[c] = [cli[c] EXCEPT !.rx = cli'[c].rx]

(***************************************************************************)
(* C13  A datagram whose flag byte is greater than PONG or whose version   *)
(* byte is not the supported version is rejected: the server Poll that     *)
(* reads it sends nothing, invokes no handler and leaves the registry as   *)
(* it was; the client call that reads it sends nothing, returns nothing to *)
(* the caller and leaves the connected flag as it was.                     *)
(***************************************************************************)
C13_InvalidRejected ==
  [][/\ (ReadStep /\ Dec(Head(srvSock)).ok
           /\ ~IsValid(Dec(Head(srvSock)).pkt))
        => (sent' = <<>> /\ handled' = None /\ clients' = clients)
     /\ \A c \in DOMAIN cli :
          (ClientReads(c) /\ Dec(Head(cliSock[c])).ok
             /\ ~IsValid(Dec(Head(cliSock[c])).pkt))
          => (OnlyRead(c) /\ srvSock' = srvSock)]_vars

(***************************************************************************)
(* C15  The handler is never invoked with a packet whose flag is CONN,     *)
(* STOP, PING or PONG, whether it arrived directly or was reassembled.     *)
(***************************************************************************)
C15_HandlerNeverGetsControl ==
  handled.set => handled.val.pkt.flag \notin {CONN, STOP, PING, PONG}

(***************************************************************************)
(* C16  Send, SendLarge, SendCommand and Ping called on a client that is   *)
(* not connected return false at once: no datagram is handed to the        *)
(* socket and the sequence counter and every other field of the client     *)
(* stay as they were.                                                      *)
(***************************************************************************)
SendOps == {"Send", "SendLarge", "SendCommand", "Ping"}

\* a step in which client c, with no call in progress, calls one of SendOps
CallsSendOp(c) ==
  /\ cli[c].call = "none" /\ cli'[c] # cli[c]
  /\ \/ cli'[c].call = "Ping"
     \/ cli'[c].call = "none" /\ cli'[c].last.op \in SendOps

C16_NotConnectedRefused ==
  [][\A c \in DOMAIN cli :
       (CallsSendOp(c) /\ ~cli[c].connected)
       => /\ cli'[c].call = "none" /\ cli'[c].last.ret = FALSE
          /\ cli'[c].emitted = <<>>
          /\ cli'[c] = [cli[c] EXCEPT !.last = cli'[c].last,
                                      !.emitted = <<>>]
          /\ srvSock' = srvSock /\ cliSock' = cliSock]_vars

\* a client that connected and disconnected (two numbered packets) was
\* refused a Ping
C16_Witness ==
  \E c \in DOMAIN cli :
     /\ ~cli[c].connected /\ cli[c].call = "none"
     /\ cli[c].last = Returned("Ping", FALSE)
     /\ cli[c].seq_num = 2 /\ cli[c].emitted = <<>>

(***************************************************************************)
(* C17  A datagram that fails decoding (fewer than 8 bytes, or fewer than  *)
(* its header declares) has no observable effect: the server Poll that     *)
(* reads it sends nothing, invokes no handler, raises nothing and leaves   *)
(* the registry as it was; the client call that reads it sends nothing,    *)
(* does not return and leaves every field of the client (connected flag    *)
(* and sequence counter included) as it was.                               *)
(***************************************************************************)
C17_MalformedDropped ==
  [][/\ (ReadStep /\ TooShort(Head(srvSock).data))
        => /\ sent' = <<>> /\ handled' = None
           /\ ~handlerThrew' /\ ~pollRaised'
           /\ clients' = clients /\ cliSock' = cliSock /\ cli' = cli
     /\ \A c \in DOMAIN cli :
          (ClientReads(c) /\ TooShort(Head(cliSock[c]).data))
          => (OnlyRead(c) /\ srvSock' = srvSock)]_vars

\* Poll read a truncated GIVE while a peer was registered: nothing sent, no
\* handler, the peer still registered
C17_Witness ==
  /\ polled.set /\ Count(polled.val.data) = 9 /\ TooShort(polled.val.data)
  /\ sent = <<>> /\ handled = None /\ ~pollRaised /\ ~pollRet
  /\ Cardinality(DOMAIN clients) = 2

(***************************************************************************)
(* C18  An exception thrown by the handler during Poll leaves Poll: it     *)
(* reaches the caller.                                                     *)
(***************************************************************************)
C18_HandlerExceptionPropagates == handlerThrew => pollRaised

(***************************************************************************)
(* C19  Every Broadcast call sends, to each peer registered at the call,   *)
(* exactly one GIVE carrying the data, or when the data is oversize         *)
(* exactly one complete series of FRAG packets for it, and sends nothing   *)
(* to any other address; each client's Receive returns the data of a       *)
(* broadcast at most once per call, and both of two connected clients can  *)
(* each receive it once.                                                   *)
(***************************************************************************)
\* the packets of the frames fr addressed to a, in the order sent
PacketsTo(fr, a) ==
  LET mine == SelectSeq(fr, LAMBDA f : f.host = a.host /\ f.port = a.port)
  IN [i \in DOMAIN mine |-> Dec(mine[i]).pkt]

OneGiveOf(pk, data) ==
  /\ Len(pk) = 1 /\ pk[1].flag = GIVE /\ pk[1].payload = data

CompleteSeries(pk, data) ==
  /\ Len(pk) >= 2
  /\ \A i \in DOMAIN pk :
       /\ pk[i].flag = FRAG /\ At(pk[i].payload, 6) = GIVE
       /\ ToUInt16(pk[i].payload, 0) = ToUInt16(pk[1].payload, 0)
       /\ ToUInt16(pk[i].payload, 2) = i - 1
       /\ ToUInt16(pk[i].payload, 4) = Len(pk)
  /\ ChunksFrom(pk, 1) = data

\* how many elements of the sequence q satisfy Test
CountOf(q, Test(_)) == Len(SelectSeq(q, Test))

\* how often client c has been handed, or still has queued as one GIVE, the
\* data d
Copies(c, d) ==
  CountOf(cli[c].inbox.val, LAMBDA p : p.payload = d)
  + CountOf(cliSock[c], LAMBDA dg : Dec(dg).ok /\ Dec(dg).pkt.flag = GIVE
                                     /\ Dec(dg).pkt.payload = d)
  + (IF cli[c].call = "Receive.return"
        /\ cli[c].out_packet.val.flag = GIVE
        /\ cli[c].out_packet.val.payload = d THEN 1 ELSE 0)

C19_BroadcastOncePerPeer ==
  /\ \A i \in DOMAIN cast :
       /\ \A j \in DOMAIN cast[i].frames :
            [host |-> cast[i].frames[j].host,
             port |-> cast[i].frames[j].port] \in cast[i].peers
       /\ \A a \in cast[i].peers :
            IF Count(cast[i].data) <= MAX_PAYLOAD_SIZE
            THEN OneGiveOf(PacketsTo(cast[i].frames, a), cast[i].data)
            ELSE CompleteSeries(PacketsTo(cast[i].frames, a), cast[i].data)
  /\ \A c \in DOMAIN cli, d \in CastData :
       cli[c].inbox.set =>
          Copies(c, d) <= CountOf(cast, LAMBDA b : b.data = d /\ c \in b.peers)

\* "tick:1" was broadcast to the two connected clients and each has been
\* handed it once
C19_Witness ==
  /\ Len(cast) = 1 /\ cast[1].data = Bytes(<<116, 105, 99, 107, 58, 49>>)
  /\ cast[1].peers = CastAddrs /\ Len(cast[1].frames) = 2
  /\ \A c \in CastAddrs :
       /\ cli[c].connected /\ cli[c].call = "none"
       /\ Len(cli[c].inbox.val) = 1
       /\ cli[c].inbox.val[1].payload = cast[1].data

(***************************************************************************)
(* C21  Disconnect on a connected client hands exactly one STOP, carrying  *)
(* the next sequence value, to the socket, and returns with connected      *)
(* false without waiting for a reply; on a client that is not connected    *)
(* (a second Disconnect in a row included) it sends nothing and changes no *)
(* field.                                                                  *)
(***************************************************************************)
C21_DisconnectOnce ==
  [][\A c \in DOMAIN cli :
       (cli'[c].last.op = "Disconnect" /\ Disconnect(c))
       => IF cli[c].connected
          THEN /\ cli'[c] =
                    [cli[c] EXCEPT
                       !.seq_num = U16(@ + 1), !.connected = FALSE,
                       !.emitted = <<ToServer(MakeStop(cli[c].seq_num))>>,
                       !.last = Returned("Disconnect", TRUE)]
               /\ cli'[c].call = "none" /\ cliSock' = cliSock
          ELSE /\ cli'[c] = [cli[c] EXCEPT
                               !.emitted = <<>>,
                               !.last = Returned("Disconnect", TRUE)]
               /\ srvSock' = srvSock /\ cliSock' = cliSock]_vars

\* a client that connected with CONN(0) has disconnected: STOP(1) went out,
\* the counter is at 2 and no call is in progress
C21_Witness ==
  \E c \in DOMAIN cli :
     /\ ~cli[c].connected /\ cli[c].call = "none"
     /\ cli[c].last = Returned("Disconnect", TRUE)
     /\ cli[c].emitted = <<ToServer(MakeStop(1))>> /\ cli[c].seq_num = 2

(***************************************************************************)
(* C22  The sequence counter of a new client is 0.  A call that hands a    *)
(* CONN, GIVE, PING or STOP to the socket hands exactly that one packet,   *)
(* carrying the counter value from before the call, and leaves the counter *)
(* one higher modulo 2^16 (65535 is followed by 0).  Every other step,     *)
(* those that hand SEEN or FRAG packets to the socket included, leaves the *)
(* counter as it was, and FRAG packet number i carries seq i.              *)
(***************************************************************************)
\* the packets of the frames client c handed to its socket in this step
\* (none when the step handed nothing new to it)
HandedOver(c) ==
  IF cli'[c].emitted = cli[c].emitted THEN <<>>
  ELSE [i \in DOMAIN cli'[c].emitted |-> Dec(cli'[c].emitted[i]).pkt]

IsNumbered(pkt) == pkt.flag \in {CONN, GIVE, PING, STOP}

C22_SequenceCounter ==
  [][\A c \in DOMAIN cli :
       /\ (cli[c].last.op = "none" /\ cli[c].call = "none")
            => cli[c].seq_num = 0
       /\ IF \E i \in DOMAIN HandedOver(c) : IsNumbered(HandedOver(c)[i])
          THEN /\ Len(HandedOver(c)) = 1
               /\ HandedOver(c)[1].seq = cli[c].seq_num
               /\ cli'[c].seq_num = (cli[c].seq_num + 1) % 65536
               /\ cli[c].seq_num = 65535 => cli'[c].seq_num = 0
          ELSE /\ cli'[c].seq_num = cli[c].seq_num
               /\ \A i \in DOMAIN HandedOver(c) :
                    /\ HandedOver(c)[i].flag \in {SEEN, FRAG}
                    /\ HandedOver(c)[i].flag = FRAG
                         => HandedOver(c)[i].seq = i - 1]_vars

\* the counter has wrapped: the PING just handed to the socket carries
\* 65535 and the counter is 0
C22_Witness ==
  \E c \in DOMAIN cli :
     /\ cli[c].seq_num = 0 /\ cli[c].call = "Ping"
     /\ cli[c].emitted = <<ToServer(MakePing(65535))>>

(***************************************************************************)
(* C25  After Ping returned true, the round-trip time the client reports   *)
(* (ping_ms) is between 0 and 1000 milliseconds.                           *)
(***************************************************************************)
C25_PingMsInRange ==
  \A c \in DOMAIN cli :
     cli[c].last = Returned("Ping", TRUE) => cli[c].ping_ms \in 0..1000

(***************************************************************************)
(* C26  Acknowledgement traffic dies out: with the client calling Receive  *)
(* and the server calling Poll again and again over a link that loses      *)
(* nothing, and the applications sending only finitely often, from some    *)
(* point on no frame is in flight.                                         *)
(***************************************************************************)
NoFrameInFlight == srvSock = <<>> /\ \A c \in DOMAIN cliSock : cliSock[c] = <<>>

C26_AckTrafficDiesOut == <>[]NoFrameInFlight

(***************************************************************************)
(* What a connected client hands to its socket in one SendLarge call       *)
(***************************************************************************)
\* a step in which connected client c calls SendLarge(a.data, a.key)
CallsSendLarge(c, a) ==
  /\ cli[c].connected /\ cli'[c].last.op = "SendLarge"
  /\ \E acc \in SUBSET (1..2) : SendLarge(c, a.data, a.key, acc)

\* the call emitted one GIVE: next counter value, the key or nothing,
\* the payload
OneGive(c, a) ==
  cli'[c].emitted =
    <<ToServer(MakeGive(cli[c].seq_num,
                        IF a.key.null THEN <<>> ELSE a.key.bytes, a.data))>>

\* the call emitted only FRAG packets, of original flag GIVE, whose chunks
\* make up the payload
OnlyFrags(c, a) ==
  LET pkts == [i \in DOMAIN cli'[c].emitted |-> Dec(cli'[c].emitted[i]).pkt]
  IN /\ Len(pkts) >= 1
     /\ \A i \in DOMAIN pkts :
          /\ pkts[i].flag = FRAG /\ At(pkts[i].payload, 6) = GIVE
          /\ cli'[c].emitted[i].host = ServerAddr.host
          /\ cli'[c].emitted[i].port = ServerAddr.port
     /\ ChunksFrom(pkts, 1) = a.data

(***************************************************************************)
(* C20  A client send fragments exactly when the payload is longer than    *)
(* the chunk size of the fragment engine: at most ChunkSize bytes go out   *)
(* as one GIVE (next counter value, recipient key or nothing, payload),    *)
(* more go out as FRAG packets of original flag GIVE only.                 *)
(***************************************************************************)
C20_FragmentsOverChunk ==
  [][\A c \in DOMAIN cli, a \in SendArgs :
       CallsSendLarge(c, a) =>
          IF Count(a.data) <= ChunkSize THEN OneGive(c, a)
          ELSE OnlyFrags(c, a)]_vars

(***************************************************************************)
(* C20 (amended)  SendLarge fragments exactly when the payload is longer   *)
(* than MAX_PAYLOAD_SIZE (60000 bytes, 12 more than the chunk size): at    *)
(* most 60000 bytes go out as one GIVE (next counter value, recipient key  *)
(* or nothing, payload), more go out as FRAG packets of original flag GIVE *)
(* only; Send itself always hands exactly one GIVE to the socket.          *)
(***************************************************************************)
C20_FragmentsOverMaxPayload ==
  [][\A c \in DOMAIN cli, a \in SendArgs :
       /\ CallsSendLarge(c, a) =>
            IF Count(a.data) <= MAX_PAYLOAD_SIZE THEN OneGive(c, a)
            ELSE OnlyFrags(c, a)
       /\ (/\ cli[c].connected /\ cli'[c].last.op = "Send"
           /\ \E ok \in BOOLEAN : Send(c, a.data, a.key, ok))
            => OneGive(c, a)]_vars

\* SendLarge of 60000 bytes for recipient 9 went out as one GIVE, and of
\* 60001 bytes as two FRAG packets
C20_Witness ==
  \E c \in DOMAIN cli :
     /\ cli[c].last = Returned("SendLarge", TRUE) /\ cli[c].connected
     /\ \/ /\ Len(cli[c].emitted) = 1
           /\ Dec(cli[c].emitted[1]).pkt.flag = GIVE
           /\ Dec(cli[c].emitted[1]).pkt.requirements = Bytes(<<9>>)
           /\ Count(Dec(cli[c].emitted[1]).pkt.payload) = 60000
        \/ /\ Len(cli[c].emitted) = 2
           /\ Dec(cli[c].emitted[2]).pkt.flag = FRAG
           /\ Count(Dec(cli[c].emitted[2]).pkt.payload) = 7 + 60001 - ChunkSize

\* what AddFragment of the server makes of the datagram Poll is about to read
Arriving == AddFragment(messages, Dec(Head(srvSock)).pkt, now)

\* Poll is about to read the FRAG that completes a message
CompletesMessage == ReadsFlag(FRAG) /\ Arriving.complete

(***************************************************************************)
(* C28  A Poll that reads a FRAG which does not complete a message sends   *)
(* no frame, invokes no handler and leaves the client registry alone; a    *)
(* Poll with a handler that reads a FRAG which completes a message sends   *)
(* exactly one SEEN, carrying the seq of that FRAG, to its source and      *)
(* invokes the handler once with a packet of the original flag, empty      *)
(* requirements and the reassembled bytes as payload.                      *)
(***************************************************************************)
C28_FragAtServer ==
  [][/\ (ReadsFlag(FRAG) /\ ~Arriving.complete)
        => (sent' = <<>> /\ handled' = None /\ clients' = clients)
     /\ (CompletesMessage /\ \E h \in Handlers \ {"null"} : Poll(h))
        => /\ \E i \in DOMAIN sent' :
                /\ SeenFrames(sent') = {i}
                /\ IsSeenFor(sent'[i], Dec(Head(srvSock)).pkt.seq,
                             Head(srvSock))
           /\ handled'.set
           /\ handled'.val.pkt.flag = Arriving.flag
           /\ handled'.val.pkt.requirements = <<>>
           /\ handled'.val.pkt.payload = Arriving.data.bytes]_vars

\* packet number k of the sender arrives in this step
Feeds(k) == fSplit /\ fFed'[k] = fFed[k] + 1

\* after the step the chunk of packet pkt is in the record of its message
StoredAfter(pkt) ==
  LET msg_id == ToUInt16(pkt.payload, 0)
      frag_num == ToUInt16(pkt.payload, 2)
  IN /\ msg_id \in DOMAIN messages'
     /\ frag_num \in DOMAIN messages'[msg_id].fragments
     /\ messages'[msg_id].fragments[frag_num] = Skip(pkt.payload, 7)

(***************************************************************************)
(* C30  Every packet Fragment produced, whatever the data length (a final  *)
(* chunk of 1 to 4 bytes included), is accepted by AddFragment: after the  *)
(* call its chunk is stored in the reassembly record, or the call          *)
(* completed the message.                                                  *)
(***************************************************************************)
C30_EveryFragmentStored ==
  [][\A k \in 1..Len(fPkts) :
       Feeds(k) =>
          \/ StoredAfter(fPkts[k])
          \/ Len(fSurfaced') = Len(fSurfaced) + 1]_vars

(***************************************************************************)
(* Fragments as any sender can put them on the wire                        *)
(***************************************************************************)
\* a FRAG packet with the sub-header fields AddFragment parses
ForgedFrag(msg_id, frag_num, total_frags, flag, chunk) ==
  Packet(FRAG, frag_num, <<>>,
         Cat(Cat(Cat(Cat(GetBytes(msg_id), GetBytes(frag_num)),
                     GetBytes(total_frags)), Bytes(<<flag>>)), chunk))

\* message 3 announced with two fragments: its two chunks, chunks whose
\* index is the total or beyond it, a chunk that announces four fragments
\* and chunk 0 again with other bytes
ForgedPackets ==
  <<ForgedFrag(3, 0, 2, GIVE, Bytes(<<65, 65, 65, 65, 65>>)),
    ForgedFrag(3, 1, 2, GIVE, Bytes(<<66, 66, 66, 66, 66>>)),
    ForgedFrag(3, 2, 2, GIVE, Bytes(<<67, 67, 67, 67, 67>>)),
    ForgedFrag(3, 5, 2, GIVE, Bytes(<<68, 68, 68, 68, 68>>)),
    ForgedFrag(3, 1, 4, GIVE, Bytes(<<69, 69, 69, 69, 69>>)),
    ForgedFrag(3, 0, 2, GIVE, Bytes(<<70, 70, 70, 70, 70>>))>>

\* a receiver with an empty table, about to be handed these packets in any
\* order, any number of times, while the clock moves
InitForged ==
  /\ fData = <<>> /\ fFlag = GIVE /\ next_msg_id = 0 /\ fSplit = TRUE
  /\ fPkts = ForgedPackets /\ fFed = [k \in DOMAIN ForgedPackets |-> 0]
  /\ messages = <<>> /\ fSurfaced = <<>>
  /\ CodecIdle /\ NetIdle
NextForged == Tick \/ \E k \in 1..Len(fPkts) : FeedStep(k)
SpecForged == InitForged /\ [][NextForged]_vars

\* every chunk stored in a reassembly record has an index below the total
\* of the record
StoredInRange ==
  \A id \in DOMAIN messages :
     \A j \in DOMAIN messages[id].fragments :
        j < messages[id].total_fragments

\* the index of pkt is at or beyond the total of the record of its message
\* (the record AddFragment finds, or the one it would create)
BeyondTotal(pkt) ==
  LET msg_id == ToUInt16(pkt.payload, 0)
      total == IF msg_id \in DOMAIN messages
               THEN messages[msg_id].total_fragments
               ELSE ToUInt16(pkt.payload, 4)
  IN ToUInt16(pkt.payload, 2) >= total

(***************************************************************************)
(* C29  Every chunk stored in a reassembly record has an index below the   *)
(* total of the record: AddFragment of a fragment whose index is at or     *)
(* beyond that total leaves the table as it was (nothing stored, no record *)
(* destroyed) and reports no complete message.                             *)
(***************************************************************************)
C29_ChunkIndexInRange ==
  /\ []StoredInRange
  /\ [][\A k \in 1..Len(fPkts) :
          (Feeds(k) /\ BeyondTotal(fPkts[k]))
             => (messages' = messages /\ fSurfaced' = fSurfaced)]_vars

(***************************************************************************)
(* Two clients sending large messages to one server                        *)
(***************************************************************************)
\* SendLarge(data) with more than MAX_PAYLOAD_SIZE bytes, up to its loop:
\* Fragment takes the next message id of the client's engine
SendLargeCall(c, data) ==
  /\ cli[c].call = "none" /\ ~NotConnected(cli[c]) /\ ~FitsOnePacket(data)
  /\ cli[c].next_msg_id < MaxMsgs
  /\ cli' = [cli EXCEPT ![c].next_msg_id = U16(@ + 1),
                        ![c].call = "SendLarge",
                        ![c].emitted = <<>>]
  /\ UNCHANGED <<srvSock, cliSock, awaitingStop>>
  /\ SrvFrozen

\* one iteration of the loop of SendLarge(data): the next fragment goes to
\* the socket (socket.Send succeeds), then Thread.Sleep(1) lets the other
\* processes run; after the last fragment the call returns all_sent
SendLargeNext(c, data) ==
  LET fragments == Fragment(data, GIVE, U16(cli[c].next_msg_id + 65535))
      k == Len(cli[c].emitted) + 1
  IN /\ cli[c].call = "SendLarge" /\ k <= Len(fragments)
     /\ srvSock' \in Delivered(c, <<fragments[k]>>)
     /\ cli' = [cli EXCEPT
                  ![c].emitted = Append(@, ToServer(fragments[k])),
                  ![c].call = IF k = Len(fragments) THEN "none" ELSE @,
                  ![c].last = IF k = Len(fragments)
                              THEN Returned("SendLarge", TRUE) ELSE @]
     /\ UNCHANGED <<cliSock, awaitingStop>>
     /\ SrvFrozen

\* what each of the two clients sends: 60001 bytes 'A', 60001 bytes 'B'
LargeOf(c) ==
  IF c.host = "10.0.0.2" THEN Rep(65, MAX_PAYLOAD_SIZE + 1)
  ELSE Rep(66, MAX_PAYLOAD_SIZE + 1)

\* two clients and one server over a link that loses nothing: each client
\* connects once and sends its large message fragment by fragment; the
\* server is started and calls Poll with a handler that sends nothing
InitTwoSenders ==
  /\ NetFieldsFor(CastAddrs, FALSE) /\ listening = TRUE
  /\ messages = <<>> /\ CodecIdle /\ FragIdle

NextTwoSenders ==
  \/ Start
  \/ QuietPoll
  \/ \E c \in DOMAIN cli : QuietConnect(c)
  \/ \E c \in DOMAIN cli : ConnectRecv(c)
  \/ \E c \in DOMAIN cli : SendLargeCall(c, LargeOf(c))
  \/ \E c \in DOMAIN cli :
        SendLargeNext(c, LargeOf(c)) /\ Len(srvSock') = Len(srvSock) + 1

SpecTwoSenders == InitTwoSenders /\ [][NextTwoSenders]_vars

\* the source address of a datagram
SourceOf(dg) == [host |-> dg.host, port |-> dg.port]

\* every client has sent its message and the server has read every datagram
AllSentAndRead ==
  /\ srvSock = <<>>
  /\ \A c \in DOMAIN cli :
        cli[c].call = "none" /\ cli[c].last = Returned("SendLarge", TRUE)

(***************************************************************************)
(* C27  Two clients send a fragmented message each, both with msg_id 0,    *)
(* and the fragments interleave at the server: a payload the handler gets  *)
(* from a completed message is the payload the source of the completing    *)
(* fragment sent (no chunk of the other sender in it), and neither message *)
(* is lost: once every fragment has been read no partial message is left   *)
(* in the reassembly table.                                                *)
(***************************************************************************)
C27_InterleavedSenders ==
  /\ (PolledFlag(FRAG) /\ handled.set)
        => handled.val.pkt.payload = LargeOf(SourceOf(polled.val))
  /\ AllSentAndRead => messages = <<>>

\* pkt declares another total than the record of its message holds
OtherTotal(pkt) ==
  LET msg_id == ToUInt16(pkt.payload, 0)
  IN /\ msg_id \in DOMAIN messages
     /\ ToUInt16(pkt.payload, 4) # messages[msg_id].total_fragments

(***************************************************************************)
(* C31  AddFragment of a fragment whose declared total_fragments differs   *)
(* from the total of the existing record of its msg_id changes nothing:    *)
(* the table (chunks, total, last_update) stays as it was and no message   *)
(* is surfaced.                                                            *)
(***************************************************************************)
C31_TotalMismatchRejected ==
  [][\A k \in 1..Len(fPkts) :
       (Feeds(k) /\ OtherTotal(fPkts[k]))
          => (messages' = messages /\ fSurfaced' = fSurfaced)]_vars

\* the chunk index of pkt is already stored in the record of its message
AlreadyStored(pkt) ==
  LET msg_id == ToUInt16(pkt.payload, 0)
  IN /\ msg_id \in DOMAIN messages
     /\ ToUInt16(pkt.payload, 2) \in DOMAIN messages[msg_id].fragments

(***************************************************************************)
(* C32  AddFragment of a fragment whose index is already stored in the     *)
(* (incomplete) record of its message keeps the record in the table with   *)
(* the same set of indexes and the same total, puts the new bytes at that  *)
(* index, sets last_update to the time of the call and surfaces nothing.   *)
(***************************************************************************)
C32_DuplicateOverwrites ==
  [][\A k \in 1..Len(fPkts) :
       (Feeds(k) /\ AlreadyStored(fPkts[k])) =>
          LET msg_id == ToUInt16(fPkts[k].payload, 0)
              frag_num == ToUInt16(fPkts[k].payload, 2)
          IN /\ DOMAIN messages' = DOMAIN messages
             /\ \A id \in DOMAIN messages \ {msg_id} :
                   messages'[id] = messages[id]
             /\ DOMAIN messages'[msg_id].fragments =
                   DOMAIN messages[msg_id].fragments
             /\ \A j \in DOMAIN messages[msg_id].fragments \ {frag_num} :
                   messages'[msg_id].fragments[j] =
                      messages[msg_id].fragments[j]
             /\ messages'[msg_id].fragments[frag_num] =
                   Skip(fPkts[k].payload, 7)
             /\ messages'[msg_id].total_fragments =
                   messages[msg_id].total_fragments
             /\ messages'[msg_id].last_update = now
             /\ fSurfaced' = fSurfaced]_vars

\* chunk 0 of message 3 arrived twice, the second time with other bytes and
\* one tick later: the record holds index 0 only, with the later bytes and
\* the later time
C32_Witness ==
  /\ fPkts = ForgedPackets /\ Arrivals = 2 /\ fFed[1] = 1 /\ fFed[6] = 1
  /\ 3 \in DOMAIN messages /\ DOMAIN messages[3].fragments = {0}
  /\ messages[3].fragments[0] = Bytes(<<70, 70, 70, 70, 70>>)
  /\ messages[3].last_update = TickMs /\ fSurfaced = <<>>

\* frame f is a PONG with sequence number n sent to the source of dg
IsPongFor(f, n, dg) ==
  /\ Dec(f).ok /\ Dec(f).pkt.flag = PONG /\ Dec(f).pkt.seq = n
  /\ f.host = dg.host /\ f.port = dg.port

(***************************************************************************)
(* C33  The Poll call that reads a PING with sequence number N sends one   *)
(* frame, a PONG with N to the source of the PING (so no SEEN), invokes no *)
(* handler and leaves the client registry as it was, except that the       *)
(* record of the source, when there is one, gets last_ping = now.          *)
(***************************************************************************)
C33_PingAnswered ==
  [][ReadsFlag(PING) =>
       LET dg == Head(srvSock)
           key == MakeClientKey(dg.host, dg.port)
       IN /\ Len(sent') = 1 /\ IsPongFor(sent'[1], Dec(dg).pkt.seq, dg)
          /\ handled' = None
          /\ DOMAIN clients' = DOMAIN clients
          /\ \A k \in DOMAIN clients :
                clients'[k] = IF k = key
                              THEN [clients[k] EXCEPT !.last_ping = now]
                              ELSE clients[k]]_vars

\* a PING with sequence number 3 from a registered peer was answered with
\* PONG(3) one tick after the peer connected: only last_ping moved
C33_Witness ==
  /\ PolledFlag(PING) /\ Dec(polled.val).pkt.seq = 3
  /\ Len(sent) = 1 /\ IsPongFor(sent[1], 3, polled.val)
  /\ KeyOf(polled.val) \in DOMAIN clients
  /\ clients[KeyOf(polled.val)].last_ping = TickMs
  /\ clients[KeyOf(polled.val)].last_seen = 0

(***************************************************************************)
(* Keepalive                                                               *)
(***************************************************************************)
\* KeepAlive(): Ping() when the last PONG is more than 5 seconds old
KeepAlive(c, ok) ==
  IF now - cli[c].last_ping > 5 * 1000
  THEN PingCall(c, ok, 0)
  ELSE cli[c].call = "none" /\ UNCHANGED vars

\* the time between two rounds of the client's loop
KeepAliveEvery == 12000

\* one client and one server over a link that loses nothing: the client
\* connects once and calls KeepAlive, the server is started, calls Poll with
\* a handler that sends nothing and sweeps its registry with the default
\* threshold
NextKeepAlive ==
  \/ Start
  \/ QuietPoll
  \/ CleanupStaleClients
  \/ Wait(KeepAliveEvery)
  \/ \E c \in DOMAIN cli : QuietConnect(c)
  \/ \E c \in DOMAIN cli : ConnectRecv(c)
  \/ \E c \in DOMAIN cli : KeepAlive(c, TRUE) /\ LossFreeClient(c)
  \/ \E c \in DOMAIN cli : PingRecv(c)
  \/ \E c \in DOMAIN cli : PingTimeout(c)

SpecKeepAlive == InitNet /\ [][NextKeepAlive]_vars

(***************************************************************************)
(* C34  Keepalive keeps a peer registered: CleanupStaleClients (default    *)
(* threshold, 30 seconds) never removes a record whose peer sent its last  *)
(* PING less than 30 seconds ago, so a peer that pings at shorter          *)
(* intervals stays in the registry.                                        *)
(***************************************************************************)
C34_KeepAliveKeepsPeer ==
  [][\A k \in DOMAIN clients :
        k \notin DOMAIN clients' => now - clients[k].last_ping >= 30 * 1000]_vars

\* the loop of Receive of client c reads a datagram that decodes to a
\* packet with flag f
ReceiveReadsFlag(c, f) ==
  /\ ReceiveReads(c)
  /\ Dec(Head(cliSock[c])).ok /\ Dec(Head(cliSock[c])).pkt.flag = f

(***************************************************************************)
(* C35  Receive consumes an inbound PONG: the iteration that reads it      *)
(* sends no frame (no SEEN), sets no packet to return and stays in the     *)
(* loop, which goes on until a packet to return arrives or the deadline    *)
(* passes.                                                                 *)
(***************************************************************************)
C35_PongConsumed ==
  [][\A c \in DOMAIN cli :
       ReceiveReadsFlag(c, PONG) =>
          /\ cli'[c].call = "Receive"
          /\ cli'[c].emitted = <<>>
          /\ cli'[c].out_packet = None
          /\ srvSock' = srvSock]_vars

(***************************************************************************)
(* The wait loops of Connect and Ping among other traffic                  *)
(***************************************************************************)
\* one client whose socket gets datagrams of every kind while it connects,
\* pings and receives
NextWaits ==
  \/ Tick
  \/ \E c \in DOMAIN cli : ConnectCall(c, Bytes(<<9>>), TRUE)
  \/ \E c \in DOMAIN cli : ConnectRecv(c)
  \/ \E c \in DOMAIN cli : ConnectTimeout(c)
  \/ \E c \in DOMAIN cli : PingCall(c, TRUE, 0)
  \/ \E c \in DOMAIN cli : PingRecv(c)
  \/ \E c \in DOMAIN cli : PingTimeout(c)
  \/ \E c \in DOMAIN cli : ReceiveCall(c)
  \/ \E c \in DOMAIN cli : ReceiveRecv(c)
  \/ \E c \in DOMAIN cli : ReceiveReturn(c)
  \/ \E c \in DOMAIN cli : ReceiveTimeout(c)
  \/ \E c \in DOMAIN cli, dg \in ClientTraffic : RawToClient(c, dg)

SpecWaits == InitClient /\ [][NextWaits]_vars

\* the wait loop of op of client c reads a datagram that is not the packet
\* it waits for (a decodable packet of flag awaited)
ReadsOther(c, op, awaited) ==
  /\ cli[c].call = op
  /\ cliSock[c] # <<>> /\ cliSock'[c] = Tail(cliSock[c])
  /\ ~(Dec(Head(cliSock[c])).ok /\ Dec(Head(cliSock[c])).pkt.flag = awaited)

(***************************************************************************)
(* C36  While Connect waits for a SEEN and while Ping waits for a PONG,    *)
(* any other datagram read from the socket is consumed and discarded: it   *)
(* is off the socket, no frame is sent for it, nothing of it is kept in    *)
(* the client (its fields stay as they were, so no later Receive can       *)
(* return it) and the call goes on waiting.                                *)
(***************************************************************************)
C36_WaitsDiscardOthers ==
  [][\A c \in DOMAIN cli :
       (ReadsOther(c, "Connect", SEEN) \/ ReadsOther(c, "Ping", PONG))
          => /\ OnlyRead(c)
             /\ cli'[c].rx = Some(Head(cliSock[c]))
             /\ srvSock' = srvSock]_vars

\* Ping, waiting for its PONG, has read the GIVE with sequence number 5:
\* the only frame it sent is the PING, nothing is set to be returned and
\* the socket is empty
C36_Witness ==
  \E c \in DOMAIN cli :
     /\ cli[c].call = "Ping" /\ cli[c].connected
     /\ cli[c].rx.set /\ Dec(cli[c].rx.val).ok
     /\ Dec(cli[c].rx.val).pkt = MakeGive(5, <<>>, Bytes(<<104, 105>>))
     /\ Len(cli[c].emitted) = 1 /\ Dec(cli[c].emitted[1]).pkt.flag = PING
     /\ cli[c].out_packet = None /\ cliSock[c] = <<>>

(***************************************************************************)
(* The client registry of a server that also broadcasts                    *)
(***************************************************************************)
\* the datagrams that concern the registry, from two addresses
RegistryTraffic ==
  {dg \in RawTraffic :
     Dec(dg).ok /\ Dec(dg).pkt.flag \in {CONN, STOP, GIVE, FlagTAKE, PING}}

\* a server that polls with a handler that replies through SendTo, sweeps
\* its registry and broadcasts "tick:1"
NextRegistry ==
  \/ Start
  \/ Poll("reply")
  \/ CleanupStaleClients
  \/ Tick
  \/ \E dg \in RegistryTraffic : RawSend(dg)
  \/ Broadcast(Bytes(<<116, 105, 99, 107, 58, 49>>))
SpecRegistry == InitNet /\ [][NextRegistry]_vars

\* who a record stands for
Identity(r) == <<r.host, r.port, r.pubkey>>

\* a record was added, removed or replaced in this step (the time stamps
\* last_seen and last_ping of a record that stays are not looked at)
RegistryChanges ==
  \/ DOMAIN clients' # DOMAIN clients
  \/ \E k \in DOMAIN clients : Identity(clients'[k]) # Identity(clients[k])

\* the records of all keys but key are as before the step
OthersKept(key) ==
  \A k \in DOMAIN clients \ {key} :
     k \in DOMAIN clients' /\ clients'[k] = clients[k]

\* every record is filed under the key made of its own host and port
KeyedByAddress ==
  \A k \in DOMAIN clients : k = MakeClientKey(clients[k].host, clients[k].port)

C38_SeenInOrder ==
  [][(ReadStep /\ Dec(Head(srvSock)).ok) =>
       LET dg == Head(srvSock)
           seq == Dec(dg).pkt.seq
       IN /\ \A i \in SeenFrames(sent') : IsSeenFor(sent'[i], seq, dg)
          /\ (\E f \in {CONN, GIVE, FlagTAKE, STOP} : ReadsFlag(f))
                => SeenFrames(sent') # {}
          /\ handled'.set
                => /\ 1 \in SeenFrames(sent')
                   /\ \A i \in DOMAIN sent' \ SeenFrames(sent') :
                         \A j \in SeenFrames(sent') : j < i]_vars

\* the GIVE with sequence number 1 of a registered sender was read: its
\* SEEN went out first, the reply of the handler after it
C38_Witness ==
  /\ PolledFlag(GIVE) /\ Dec(polled.val).pkt.seq = 1
  /\ KeyOf(polled.val) \in DOMAIN clients
  /\ handled.set /\ handled.val.pkt.flag = GIVE
  /\ Len(sent) = 2 /\ IsSeenFor(sent[1], 1, polled.val)
  /\ Dec(sent[2]).ok /\ Dec(sent[2]).pkt.flag = GIVE

\* a step of CleanupStaleClients that removes a record: the only step that
\* changes the registry without reading a datagram
SweepStep == clients' # clients /\ srvSock' = srvSock

(***************************************************************************)
(* C39  CleanupStaleClients (default threshold, 30 seconds) removes        *)
(* exactly the records whose last_seen is more than 30 seconds in the past *)
(* and leaves every other record as it was; last_seen is set to the time   *)
(* of the call by the Poll that reads a CONN, and to the time of the call  *)
(* by every Poll that hands a packet of a registered address to the        *)
(* handler.                                                                *)
(***************************************************************************)
C39_StaleSweep ==
  [][/\ SweepStep
          => /\ DOMAIN clients' =
                  {k \in DOMAIN clients :
                     now - clients[k].last_seen <= 30 * 1000}
             /\ \A k \in DOMAIN clients' : clients'[k] = clients[k]
     /\ ReadsFlag(CONN)
          => clients'[KeyOf(Head(srvSock))].last_seen = now
     /\ (ReadStep /\ handled'.set /\ KeyOf(Head(srvSock)) \in DOMAIN clients)
          => /\ KeyOf(Head(srvSock)) \in DOMAIN clients'
             /\ clients'[KeyOf(Head(srvSock))].last_seen = now]_vars

\* the last Poll registered the source of a CONN; one tick later the sweep
\* has emptied the registry
C39_Witness ==
  /\ running /\ PolledFlag(CONN) /\ now = TickMs /\ clients = <<>>

\* the pieces without the empty ones at the end
RECURSIVE TrailingEmptyDropped(_)
TrailingEmptyDropped(pieces) ==
  IF pieces = <<>> THEN <<>>
  ELSE IF pieces[Len(pieces)] = <<>>
  THEN TrailingEmptyDropped(SubSeq(pieces, 1, Len(pieces) - 1))
  ELSE pieces

(***************************************************************************)
(* C40  Decode splits the text after the first '|' on ';' and drops only   *)
(* the empty pieces at the end: an empty argument followed by a non-empty  *)
(* one stays, as an empty string, at its position.                         *)
(***************************************************************************)
C40_DecodeKeepsPositions ==
  (wBack.set /\ IndexOf(UTF8GetString(wBytes.val), 124) # -1) =>
     LET str == UTF8GetString(wBytes.val)
         tail == Substring(str, IndexOf(str, 124) + 1)
     IN wBack.val.Item2 = TrailingEmptyDropped(Split(tail, 59))

=============================================================================
